---- MODULE Spec2Model ----
(***************************************************************************)
(* A model of the request-processing engine of the AI gateway:             *)
(*   - the route cache (src/src/cache/mod.rs) and the route resolver       *)
(*     (src/src/router/mod.rs);                                            *)
(*   - the request pipeline with failover (src/src/main.rs) and the        *)
(*     forwarder's status classification (src/src/proxy/mod.rs);           *)
(*   - the streaming translator (src/src/protocol/adapter.rs) and the      *)
(*     usage collector (src/src/usage_collector.rs).                       *)
(*                                                                         *)
(* Ten specifications share the variables:                                 *)
(*   Spec        the request pipeline (handle_request and the failover     *)
(*               loops), cache operations atomic;                          *)
(*   SpecFair    Spec with the fetch from the business API making          *)
(*               progress;                                                 *)
(*   SpecTelemetry  Spec with the POSTs of the spawned telemetry tasks     *)
(*               succeeding, failing or staying in flight;                 *)
(*   SpecBody    the pipeline together with the stream it returned;        *)
(*   SpecStream  one established upstream stream pulled chunk by chunk     *)
(*               through the usage collector and the translator;           *)
(*   SpecCache   threads running get / set / remove_config / clear         *)
(*               concurrently, one DashMap operation per step;             *)
(*   SpecLock    the same calls with the guards of the DashMap;            *)
(*   SpecSeq     one caller of the cache, a call returning before the      *)
(*               next is made, with the log of the calls;                  *)
(*   SpecKeys    one caller of the cache using several                     *)
(*               (user_token, requested_model) pairs;                      *)
(*   SpecHeaders the headers of the upstream request.                      *)
(*                                                                         *)
(* Text is modelled as a sequence of atoms: a decimal digit is one atom,   *)
(* any other atom is a run of non-digit characters.  Substring search for  *)
(* a status code is then search for three consecutive digit atoms.         *)
(***************************************************************************)
EXTENDS Integers, Sequences, FiniteSets, TLC

(***************************************************************************)
(* Bounds of the model.                                                    *)
(***************************************************************************)
MaxRoutes == 2       \* longest candidate list the business API returns
Ttl == 2             \* cache.ttl, in clock ticks
RetryAttempts == 1   \* business_api.retry_attempts

MaxLifetime == Ttl + 1       \* cache.max_lifetime, in clock ticks
MaxTime == MaxLifetime + 1   \* the clock stops here

\* The pipeline task that is followed step by step.  It serves one inbound
\* request after another; the tasks of the other requests in flight touch only
\* the route cache, which is all the state requests share (concurrent_request).
Requests == {1}

Min(a, b) == IF a <= b THEN a ELSE b

(***************************************************************************)
(* Text helpers.                                                           *)
(***************************************************************************)
\* str::contains: pat occurs in s as a contiguous run.
Contains(s, pat) ==
    \E i \in 1..(Len(s) - Len(pat) + 1) : SubSeq(s, i, i + Len(pat) - 1) = pat

\* The decimal rendering of a three-digit status code.
Digits(n) == << ToString(n \div 100), ToString((n \div 10) % 10), ToString(n % 10) >>

\* http::StatusCode::canonical_reason, for the statuses of the model.
canonical_reason(n) ==
    CASE n = 400 -> "Bad Request"
      [] n = 401 -> "Unauthorized"
      [] n = 409 -> "Conflict"
      [] n = 500 -> "Internal Server Error"
      [] OTHER   -> "<unknown status code>"

(***************************************************************************)
(* Data model (src/src/models/mod.rs).                                     *)
(***************************************************************************)
RouteConfig(tok, ep, proto, mid) ==
    [token |-> tok, api_endpoint |-> ep, protocol |-> proto, model_id |-> mid]

RA  == RouteConfig("ta", "ea", "openai", "m1")
RB  == RouteConfig("tb", "eb", "anthropic", "m2")
RC  == RouteConfig("tc", "ec", "custom", "m3")
Routes == {RA, RB, RC}

\* Candidate lists the business API can answer with: no route twice.
RECURSIVE ListsUpTo(_)
ListsUpTo(n) ==
    IF n = 0 THEN { << >> }
    ELSE LET shorter == ListsUpTo(n - 1)
         IN  shorter \cup
             { Append(l, x) : l \in { s \in shorter : Len(s) = n - 1 },
                              x \in Routes }
NoDup(l) == \A i, j \in 1..Len(l) : i # j => l[i] # l[j]
RouteLists == { l \in ListsUpTo(MaxRoutes) : NoDup(l) }

UserTokens == { << "u" >> }
Models     == { << "m" >> }

VARIABLES
    \* the route cache and the clock
    cache,        \* DashMap<String, CacheEntry>: key -> entry, present keys only
    now,          \* Instant::now()
    \* the request pipeline, per inbound request
    pc,           \* position of the request's task
    req,          \* what the inbound request carries
    candidates,   \* route_configs: the list resolve returned (a snapshot)
    idx,          \* position of the failover loop in candidates
    retry_count,  \* fetch_from_business_api's retry counter
    posts,        \* POSTs sent to /v1/route/resolve for this request
    api_response, \* what the business API answered to the latest of them
    attempts,     \* history: one record per loop iteration
    errorEvents,  \* ErrorEvents handed to telemetry by this request
    usageEvents,  \* UsageEvents handed to telemetry carrying this request_id
    telemetry,    \* the POSTs of the tasks telemetry spawned: pending, ok, failed
    response,     \* the HTTP response returned to the client
    \* one established upstream stream (handle_stream after proxy.stream)
    sproto,       \* [src: the route's protocol, cli: the client's protocol]
    wire,         \* the bytes the upstream will send, as atoms
    pos,          \* how many of them it has sent
    upItems,      \* items the upstream byte stream has yielded
    wrapped,      \* items wrap_stream has yielded
    clientOut,    \* items the translated stream has yielded to the client
    collector,    \* StreamUsageCollector: buffer, input_tokens, output_tokens
    translator,   \* the variables captured by the translator's closure
    streamEvents, \* UsageEvents the collector handed to telemetry
    spc,          \* "idle", "open" or "ended"
    \* threads calling the cache concurrently
    thr,          \* per thread: operation, argument, position, result
    hist,         \* calls and returns in real-time order
    first         \* the store the threads started from

storeVars  == << cache, now >>
pipeVars   == << pc, req, candidates, idx, retry_count, posts, api_response, attempts,
                 errorEvents, usageEvents, telemetry, response >>
streamVars == << sproto, wire, pos, upItems, wrapped, clientOut, collector,
                 translator, streamEvents, spc >>
thrVars    == << thr, hist, first >>
vars == << storeVars, pipeVars, streamVars, thrVars >>

(***************************************************************************)
(* Route cache (src/src/cache/mod.rs).                                     *)
(***************************************************************************)
make_key(token, model) == token \o << ":" >> \o model

storage_remove(store, key) == [k \in (DOMAIN store) \ {key} |-> store[k]]

\* An insert that keeps the entry the key already has.
storage_insert_if_absent(store, key, entry) == IF key \in DOMAIN store THEN store ELSE [k \in (DOMAIN store) \cup {key} |-> IF k = key THEN entry ELSE store[k]]

storage_insert(store, key, entry) ==
    [k \in (DOMAIN store) \cup {key} |-> IF k = key THEN entry ELSE store[k]]

storage_clear(store) == << >>

\* Phase 1 of get: the expiry check under the read guard.
get_need_remove(store, key, t) ==
    /\ key \in DOMAIN store
    /\ (t >= store[key].hard_expires_at \/ t >= store[key].expires_at)

\* A refresh that slides the expiry without the cap.
get_refresh_uncapped(store, key, t) == IF key \in DOMAIN store THEN [store |-> [store EXCEPT ![key].expires_at = t + Ttl], hit |-> TRUE, configs |-> store[key].configs] ELSE [store |-> store, hit |-> FALSE, configs |-> << >>]

\* Phase 3 of get: the sliding refresh and the snapshot under the write guard.
get_refresh(store, key, t) ==
    IF key \in DOMAIN store
    THEN [store  |-> [store EXCEPT ![key].expires_at =
                                        Min(t + Ttl, store[key].hard_expires_at)],
          hit    |-> TRUE,
          configs |-> store[key].configs]
    ELSE [store |-> store, hit |-> FALSE, configs |-> << >>]

\* What get returns: Some(configs) or None.
get_result(g) == [hit |-> g.hit, configs |-> g.configs]

\* Cache::get run without interruption.
cache_get(store, key, t) ==
    IF get_need_remove(store, key, t)
    THEN [store |-> storage_remove(store, key), hit |-> FALSE, configs |-> << >>]
    ELSE get_refresh(store, key, t)

new_entry(configs, t) ==
    [configs         |-> configs,
     created_at      |-> t,
     hard_expires_at |-> t + MaxLifetime,
     expires_at      |-> Min(t + Ttl, t + MaxLifetime)]

cache_set(store, key, t, configs) == storage_insert(store, key, new_entry(configs, t))

\* A retain predicate on the whole config.
retained_structural(c, failed) == c # failed

\* The retain predicate of remove_config.
retained(c, failed) ==
    c.token # failed.token \/ c.api_endpoint # failed.api_endpoint

\* The guarded block of remove_config: retain, and decide the removal.
remove_retain(store, key, failed) ==
    IF key \in DOMAIN store
    THEN LET kept == SelectSeq(store[key].configs, LAMBDA c : retained(c, failed))
         IN  [store |-> [store EXCEPT ![key].configs = kept],
              should_remove_entry |-> (kept = << >>)]
    ELSE [store |-> store, should_remove_entry |-> FALSE]

\* Cache::remove_config run without interruption.
cache_remove_config(store, key, failed) ==
    LET r == remove_retain(store, key, failed)
    IN  IF r.should_remove_entry THEN storage_remove(r.store, key) ELSE r.store

\* A remove_failed_route that leaves the cache alone.
remove_failed_route_skipped(store, user_token, requested_model, failed) == store

\* Router::remove_failed_route.
remove_failed_route(store, user_token, requested_model, failed) ==
    cache_remove_config(store, make_key(user_token, requested_model), failed)

(***************************************************************************)
(* Forwarder (src/src/proxy/mod.rs).                                       *)
(***************************************************************************)
\* What an upstream provider can do with one forwarded request.
ErrStatuses == {400, 401, 409, 500}
ErrBodies   == { << "e" >>, << "4", "0", "4" >> }
OkBodies    == {"empty", "notjson", "json_nousage", "json_usage", "json_usage_badshape"}

UpstreamOutcomes ==
    { [kind |-> "transport", status |-> 0, text |-> << >>, body |-> "none"] }
    \cup { [kind |-> "status", status |-> s, text |-> b, body |-> "none"] :
              s \in ErrStatuses, b \in ErrBodies }
    \cup { [kind |-> "ok", status |-> 200, text |-> << >>, body |-> b] : b \in OkBodies }

\* The message of the Proxy error process_response and stream build on a non-2xx.
proxy_error_msg(status, text) ==
    << "Upstream returned error status " >> \o Digits(status)
        \o << " ", canonical_reason(status), ": " >> \o text

\* forward_request / stream: the Result handed back to the pipeline.
forward_result(u) ==
    CASE u.kind = "transport" -> [ok |-> FALSE, kind |-> "Http", msg |-> << >>, body |-> "none"]
      [] u.kind = "status"    -> [ok |-> FALSE, kind |-> "Proxy",
                                  msg |-> proxy_error_msg(u.status, u.text), body |-> "none"]
      [] OTHER                -> [ok |-> TRUE, kind |-> "none", msg |-> << >>, body |-> u.body]

ClientErrorCodes == {400, 401, 403, 404, 422, 429}

is_client_error(e) ==
    /\ e.kind = "Proxy"
    /\ \E c \in ClientErrorCodes : Contains(e.msg, Digits(c))

(***************************************************************************)
(* Request pipeline (src/src/main.rs).                                     *)
(***************************************************************************)
NoResponse == [status |-> 0, kind |-> "none", text |-> << >>, from |-> 0]

error_response(status, message) ==
    [status |-> status, kind |-> "gateway_error", text |-> message, from |-> 0]

\* The text after the first ": " of msg.
after_colon(msg) ==
    LET start == CHOOSE i \in 1..Len(msg) :
                     /\ msg[i] = ": "
                     /\ \A j \in 1..(i - 1) : msg[j] # ": "
    IN  SubSeq(msg, start + 1, Len(msg))

create_error_response(e) ==
    IF e.kind = "Proxy"
    THEN CASE Contains(e.msg, Digits(400)) ->
                 IF \E i \in 1..Len(e.msg) : e.msg[i] = ": "
                 THEN [status |-> 400, kind |-> "upstream_body",
                       text |-> after_colon(e.msg), from |-> 0]
                 ELSE error_response(400, e.msg)
           [] Contains(e.msg, Digits(401)) -> error_response(401, << "Unauthorized" >>)
           [] Contains(e.msg, Digits(403)) -> error_response(403, << "Forbidden" >>)
           [] Contains(e.msg, Digits(404)) -> error_response(404, << "Not Found" >>)
           [] Contains(e.msg, Digits(422)) -> error_response(422, e.msg)
           [] Contains(e.msg, Digits(429)) -> error_response(429, << "Too Many Requests" >>)
           [] OTHER -> error_response(500, e.msg)
    ELSE error_response(500, << "HTTP error" >>)

\* UniversalAdapter::transform_request: the (client, target) pairs it supports.
transform_request_ok(client_protocol, target_protocol, shape_ok) ==
    CASE target_protocol = "custom"         -> FALSE
      [] client_protocol = target_protocol  -> TRUE
      [] OTHER                              -> shape_ok

\* UniversalAdapter::transform_response on a non-empty upstream body.
transform_response_ok(source_protocol, target_protocol, body) ==
    CASE body = "notjson"                    -> FALSE
      [] source_protocol = "custom"          -> FALSE
      [] source_protocol = target_protocol   -> TRUE
      [] OTHER                               -> body = "json_usage"

\* extract_usage_from_response finds both native token counts.
extract_usage_from_response(body) ==
    body \in {"json_usage", "json_usage_badshape"}

\* A check that takes no body for empty.
is_empty_never(body) == FALSE

\* response_body.is_empty()
is_empty(body) == body = "empty"

\* One iteration of the loop of handle_non_stream over candidate `route`,
\* with the upstream doing `u`.
non_stream_iteration(client_protocol, shape_ok, route, u) ==
    LET skip == [forwarded |-> FALSE, outcome |-> "transform_request_failed",
                 error_event |-> FALSE, usage_event |-> FALSE, evict |-> FALSE,
                 return |-> FALSE, response |-> NoResponse]
        res  == forward_result(u)
    IN  IF ~transform_request_ok(client_protocol, route.protocol, shape_ok)
        THEN skip
        ELSE IF res.ok
        THEN LET usage == extract_usage_from_response(res.body)
             IN  IF is_empty(res.body)
                 THEN [skip EXCEPT !.forwarded = TRUE, !.outcome = "empty_body",
                                   !.usage_event = usage]
                 ELSE IF transform_response_ok(route.protocol, client_protocol, res.body)
                 THEN [skip EXCEPT !.forwarded = TRUE, !.outcome = "ok",
                                   !.usage_event = usage, !.return = TRUE,
                                   !.response = [status |-> 200, kind |-> "translated",
                                                 text |-> << >>, from |-> 0]]
                 ELSE [skip EXCEPT !.forwarded = TRUE,
                                   !.outcome = "transform_response_failed",
                                   !.usage_event = usage]
        ELSE IF is_client_error(res)
        THEN [skip EXCEPT !.forwarded = TRUE, !.outcome = "client_error",
                          !.error_event = TRUE, !.return = TRUE,
                          !.response = create_error_response(res)]
        ELSE [skip EXCEPT !.forwarded = TRUE, !.outcome = "evicted",
                          !.error_event = TRUE, !.evict = TRUE]

\* One iteration of the loop of handle_stream.  transform_stream_chunk never
\* returns Err, so an established stream is always returned with 200.
stream_iteration(client_protocol, shape_ok, route, u) ==
    LET skip == [forwarded |-> FALSE, outcome |-> "transform_request_failed",
                 error_event |-> FALSE, usage_event |-> FALSE, evict |-> FALSE,
                 return |-> FALSE, response |-> NoResponse]
        res  == forward_result(u)
    IN  IF ~transform_request_ok(client_protocol, route.protocol, shape_ok)
        THEN skip
        ELSE IF res.ok
        THEN [skip EXCEPT !.forwarded = TRUE, !.outcome = "ok", !.return = TRUE,
                          !.response = [status |-> 200, kind |-> "stream",
                                        text |-> << >>, from |-> 0]]
        ELSE IF is_client_error(res)
        THEN [skip EXCEPT !.forwarded = TRUE, !.outcome = "client_error",
                          !.error_event = TRUE, !.return = TRUE,
                          !.response = create_error_response(res)]
        ELSE [skip EXCEPT !.forwarded = TRUE, !.outcome = "evicted",
                          !.error_event = TRUE, !.evict = TRUE]

\* A loop that tries the same candidate again.
next_candidate_again(i) == i

\* The loop head: the next candidate the for loop yields.
next_candidate(i) == i + 1

(***************************************************************************)
(* Telemetry (src/src/telemetry/mod.rs).                                   *)
(***************************************************************************)
\* The POSTs of the tasks spawned for a request, counted by state.
NoPosts == [pending |-> 0, ok |-> 0, failed |-> 0]

\* report_error / report_usage: tokio::spawn of the task that sends the POST.
spawn_post(t, n) == [t EXCEPT !.pending = @ + n]

\* A report that awaits its POSTs.
report_awaited(t) == t.pending = 0

\* report_error / report_usage return when the task is spawned, whatever
\* the POSTs of earlier reports are doing.
report_returns(t) == TRUE

(***************************************************************************)
(* Inputs of the pipeline.                                                 *)
(***************************************************************************)
\* An inbound request: its Authorization header, its body's model field and
\* stream flag, the protocol its path selects, and whether its body has the
\* shape the cross-protocol request rewrite needs.
DefaultReq ==
    [auth |-> TRUE, has_model |-> TRUE, token |-> << "u" >>, model |-> << "m" >>,
     stream |-> FALSE, client_protocol |-> "openai", shape_ok |-> TRUE]

RequestInputs ==
    { [DefaultReq EXCEPT !.auth = FALSE], [DefaultReq EXCEPT !.has_model = FALSE] }
    \cup { [DefaultReq EXCEPT !.token = t, !.model = m, !.stream = s,
                              !.client_protocol = p, !.shape_ok = k] :
             t \in UserTokens, m \in Models, s \in BOOLEAN,
             p \in {"openai", "anthropic"}, k \in BOOLEAN }

\* What the business API can answer to one POST /v1/route/resolve.
BusinessAnswers ==
    { [kind |-> k, data |-> << >>] :
         k \in {"failure", "badjson", "status4xx", "status5xx", "transport"} }
    \cup { [kind |-> "success", data |-> l] : l \in RouteLists }

(***************************************************************************)
(* Bytes on a stream.  A chunk is a sequence of atoms; an atom is a run of  *)
(* bytes that is never cut by a chunk boundary in this model:              *)
(*   nl     "\n"                        data   "data: "                    *)
(*   event  "event: "                   name   an event name               *)
(*   json   one JSON object             done   "[DONE]"                    *)
(*   bad    bytes that are not UTF-8    fill   a long run without "\n"     *)
(* A json atom carries the fields the code reads:                          *)
(*   t      "type" ("" when absent)     id     "id" / "message.id"         *)
(*   role   choices[0].delta.role       text   the text delta              *)
(*   has_text  whether the text field is present                           *)
(*   choice whether choices[0].delta exists                                *)
(*   stop   finish_reason / delta.stop_reason                              *)
(*   tin, tout  the token counts of "usage" (None when absent)             *)
(***************************************************************************)
\* Option<T>: None is the empty sequence, Some(n) a sequence of one.
None == << >>
Some(n) == << n >>

Atom(kind) ==
    [k |-> kind, t |-> "", id |-> "", role |-> "", text |-> << >>,
     has_text |-> FALSE, choice |-> FALSE, stop |-> "", tin |-> None,
     tout |-> None]

NL    == Atom("nl")
DATA  == Atom("data")
EVENT == Atom("event")
DONE  == Atom("done")
BAD   == Atom("bad")
FILL  == Atom("fill")
Name(n) == [Atom("name") EXCEPT !.t = n]
Json    == Atom("json")

\* Length in bytes (the lengths of name and json atoms are typical ones).
byte_len(a) ==
    CASE a.k = "nl"    -> 1
      [] a.k = "data"  -> 6
      [] a.k = "event" -> 7
      [] a.k = "name"  -> 16
      [] a.k = "json"  -> 120
      [] a.k = "done"  -> 6
      [] a.k = "bad"   -> 1
      [] a.k = "fill"  -> 600000

RECURSIVE bytes_len(_)
bytes_len(s) == IF s = << >> THEN 0 ELSE byte_len(Head(s)) + bytes_len(Tail(s))

\* Items of a Stream<Item = Result<Bytes>>.
OkItem(bytes) == [ok |-> TRUE, bytes |-> bytes]
ErrItem       == [ok |-> FALSE, bytes |-> << >>]

\* Index of the first "\n" of s, 0 when there is none.
first_nl(s) ==
    IF \E i \in 1..Len(s) : s[i].k = "nl"
    THEN CHOOSE i \in 1..Len(s) :
             s[i].k = "nl" /\ \A j \in 1..(i - 1) : s[j].k # "nl"
    ELSE 0

\* Whether the bytes of an atom contain ':'.
has_colon(a) == a.k \in {"data", "event", "json"}

\* parse_sse_line on a trimmed line: the field is what precedes the first
\* ':', the value what follows it.  "none" stands for Option::None.
parse_sse_line(line) ==
    IF ~ \E i \in 1..Len(line) : has_colon(line[i])
    THEN [field |-> "none", value |-> << >>]
    ELSE IF line[1].k \in {"data", "event"}
         THEN [field |-> line[1].k, value |-> Tail(line)]
         ELSE [field |-> "other", value |-> << >>]

\* format_sse(event, data); event = "" stands for None.
format_sse(event, data) ==
    IF event # ""
    THEN << EVENT, Name(event), NL, DATA, data, NL, NL >>
    ELSE << DATA, data, NL, NL >>

\* serde_json::from_str::<Value>(value) succeeds.
is_json(value) == Len(value) = 1 /\ value[1].k = "json"

\* The event name an "event:" line sets; "?" is a name no arm matches.
event_name(value) ==
    IF Len(value) = 1 /\ value[1].k = "name" THEN value[1].t ELSE "?"

has_usage(j) == j.tin # None \/ j.tout # None

(***************************************************************************)
(* The streaming translator (protocol/adapter.rs).  A translator state is  *)
(* the set of variables the closure given to stream.then works on; out is  *)
(* the Vec<String> of one call and brk records the break at "[DONE]".      *)
(***************************************************************************)
InitTranslator(message_id) ==
    [buffer |-> << >>, message_started |-> FALSE,
     content_block_started |-> FALSE, message_id |-> message_id,
     usage_tokens |-> None, current_event |-> "", usage_info |-> None,
     out |-> << >>, brk |-> FALSE]

\* OpenAI -> Anthropic: the "[DONE]" marker.
o2a_done(st) ==
    LET stop == IF st.content_block_started
                THEN format_sse("content_block_stop",
                                [Json EXCEPT !.t = "content_block_stop"])
                ELSE << >>
        delta == format_sse("message_delta",
                            [Json EXCEPT !.t = "message_delta",
                                         !.stop = "end_turn",
                                         !.tout = st.usage_tokens])
        fin == format_sse("message_stop", [Json EXCEPT !.t = "message_stop"])
    IN [st EXCEPT !.out = @ \o stop \o delta \o fin, !.brk = TRUE]

\* OpenAI -> Anthropic: one parsed "data:" JSON.
o2a_json(st, j) ==
    LET id == IF j.id # "" THEN j.id ELSE "msg_unknown"
        start == IF ~ st.message_started
                 THEN format_sse("message_start",
                                 [Json EXCEPT !.t = "message_start",
                                              !.id = id,
                                              !.role = "assistant"])
                 ELSE << >>
        has_content == j.choice /\ j.has_text /\ j.text # << >>
        open_block == /\ ~ st.content_block_started
                      /\ \/ j.choice /\ j.role # ""
                         \/ has_content
        block_start == IF open_block
                       THEN format_sse("content_block_start",
                                       [Json EXCEPT !.t = "content_block_start",
                                                    !.has_text = TRUE])
                       ELSE << >>
        delta == IF has_content
                 THEN format_sse("content_block_delta",
                                 [Json EXCEPT !.t = "content_block_delta",
                                              !.has_text = TRUE,
                                              !.text = j.text])
                 ELSE << >>
    IN [st EXCEPT
          !.usage_tokens = IF has_usage(j) THEN j.tout ELSE @,
          !.message_id = IF ~ st.message_started THEN id ELSE @,
          !.message_started = TRUE,
          !.content_block_started = @ \/ open_block,
          !.out = @ \o start \o block_start \o delta]

\* OpenAI -> Anthropic: the loop over the complete lines of the buffer.
RECURSIVE o2a_lines(_)
o2a_lines(st) ==
    LET p == first_nl(st.buffer)
        line == SubSeq(st.buffer, 1, p - 1)
        s1 == [st EXCEPT !.buffer = SubSeq(@, p + 1, Len(@))]
        f == parse_sse_line(line)
    IN IF p = 0 \/ st.brk THEN st
       ELSE IF line = << >> THEN o2a_lines(s1)
       ELSE IF f.field # "data" THEN o2a_lines(s1)
       ELSE IF f.value = << DONE >> THEN o2a_done(s1)
       ELSE IF is_json(f.value) THEN o2a_lines(o2a_json(s1, f.value[1]))
       ELSE o2a_lines(s1)

\* Anthropic -> OpenAI: one parsed "data:" JSON under the current event.
a2o_json(st, j) ==
    LET id == IF st.current_event = "message_start" /\ j.id # ""
              THEN j.id ELSE st.message_id
        chunk == [Json EXCEPT !.id = id, !.choice = TRUE, !.has_text = TRUE]
        usage == IF has_usage(j)
                 THEN Some(IF j.tout # None THEN j.tout[1] ELSE 0)
                 ELSE st.usage_info
    IN CASE st.current_event = "message_start" ->
              [st EXCEPT !.message_id = id,
                         !.out = @ \o format_sse("",
                                     [chunk EXCEPT !.role = "assistant"])]
         [] st.current_event = "content_block_delta" ->
              IF j.has_text
              THEN [st EXCEPT !.out = @ \o format_sse("",
                                          [chunk EXCEPT !.text = j.text])]
              ELSE st
         [] st.current_event = "message_delta" ->
              [st EXCEPT !.usage_info = usage,
                         !.out = @ \o format_sse("",
                                     [chunk EXCEPT !.stop =
                                         IF j.stop # "" THEN j.stop
                                                        ELSE "stop"])]
         [] st.current_event = "message_stop" ->
              [st EXCEPT !.out = @ \o
                   (IF st.usage_info # None
                    THEN format_sse("", [Json EXCEPT !.id = id,
                                                     !.tin = Some(0),
                                                     !.tout = st.usage_info])
                    ELSE << >>)
                   \o format_sse("", DONE)]
         [] OTHER -> st

\* Anthropic -> OpenAI: the loop over the complete lines of the buffer.
RECURSIVE a2o_lines(_)
a2o_lines(st) ==
    LET p == first_nl(st.buffer)
        line == SubSeq(st.buffer, 1, p - 1)
        s1 == [st EXCEPT !.buffer = SubSeq(@, p + 1, Len(@))]
        f == parse_sse_line(line)
    IN IF p = 0 THEN st
       ELSE IF line = << >> THEN a2o_lines([s1 EXCEPT !.current_event = ""])
       ELSE IF f.field = "event"
            THEN a2o_lines([s1 EXCEPT !.current_event = event_name(f.value)])
       ELSE IF f.field = "data" /\ is_json(f.value)
            THEN a2o_lines(a2o_json(s1, f.value[1]))
       ELSE a2o_lines(s1)

\* The body of the closure of convert_openai_to_anthropic_stream on Ok(chunk),
\* started from the state st: the item it returns and the state it ends in.
convert_openai_to_anthropic_stream(st, chunk) ==
    LET end == o2a_lines([st EXCEPT !.buffer = @ \o chunk,
                                    !.out = << >>, !.brk = FALSE])
    IN [item |-> OkItem(end.out), local |-> end]

\* The same for convert_anthropic_to_openai_stream.
convert_anthropic_to_openai_stream(st, chunk) ==
    LET end == a2o_lines([st EXCEPT !.buffer = @ \o chunk,
                                    !.out = << >>, !.brk = FALSE])
    IN [item |-> OkItem(end.out), local |-> end]

\* What the closure's captured variables hold after a call that ended in the
\* state local.  The closure starts each call with
\*     let mut buffer = buffer.clone(); let mut message_started = ...;
\* and the async block works on these copies: the captured variables are
\* read, never written.
captured_after(captured, local) == captured

\* transform_stream_chunk: the item the client receives for one item of the
\* wrapped stream, and the end state of the converter's call.
passthrough(captured, item) == [item |-> item, local |-> captured]

\* A transform_stream_chunk that converts whatever the pair of protocols.
transform_stream_converting(source_protocol, target_protocol, captured, item) ==
    IF ~ item.ok THEN passthrough(captured, item)
    ELSE IF source_protocol = "anthropic"
         THEN convert_anthropic_to_openai_stream(captured, item.bytes)
         ELSE convert_openai_to_anthropic_stream(captured, item.bytes)

transform_stream_chunk(source_protocol, target_protocol, captured, item) ==
    CASE source_protocol = target_protocol /\ source_protocol # "custom" ->
            passthrough(captured, item)
      [] source_protocol = "openai" /\ target_protocol = "anthropic" ->
            IF item.ok
            THEN convert_openai_to_anthropic_stream(captured, item.bytes)
            ELSE passthrough(captured, item)
      [] source_protocol = "anthropic" /\ target_protocol = "openai" ->
            IF item.ok
            THEN convert_anthropic_to_openai_stream(captured, item.bytes)
            ELSE passthrough(captured, item)
      [] OTHER -> passthrough(captured, item)

(***************************************************************************)
(* The usage collector (usage_collector.rs).  A collector state carries     *)
(* the buffer, the two token counts and the UsageEvents sent so far.       *)
(***************************************************************************)
BufferCap == 1048576

InitCollector ==
    [buffer |-> << >>, input_tokens |-> None, output_tokens |-> None,
     events |-> << >>]

report_usage(c) ==
    IF c.input_tokens # None /\ c.output_tokens # None
    THEN [c EXCEPT !.events = Append(@, [request_id |-> 1,
                                         input_tokens |-> c.input_tokens[1],
                                         output_tokens |-> c.output_tokens[1]])]
    ELSE c

extract_usage_from_json(c, protocol, j) ==
    IF protocol = "anthropic"
    THEN CASE j.t = "message_start" ->
                IF j.tin # None THEN [c EXCEPT !.input_tokens = j.tin] ELSE c
           [] j.t = "message_delta" ->
                IF j.tout # None THEN [c EXCEPT !.output_tokens = j.tout] ELSE c
           [] j.t = "message_stop" -> report_usage(c)
           [] OTHER -> c
    ELSE IF j.t \in {"response.completed", "response.done"}
         THEN IF has_usage(j)
              THEN report_usage(
                     [c EXCEPT !.input_tokens = IF j.tin # None THEN j.tin ELSE @,
                               !.output_tokens = IF j.tout # None THEN j.tout ELSE @])
              ELSE c
         ELSE IF ~ has_usage(j) THEN c
         ELSE LET c1 == [c EXCEPT !.input_tokens =
                                      IF j.tin # None THEN j.tin ELSE @]
              IN IF j.tout # None
                 THEN report_usage([c1 EXCEPT !.output_tokens = j.tout])
                 ELSE c1

\* str::lines
RECURSIVE split_lines(_)
split_lines(s) ==
    LET p == first_nl(s)
    IN IF p = 0 THEN IF s = << >> THEN << >> ELSE << s >>
       ELSE << SubSeq(s, 1, p - 1) >> \o split_lines(SubSeq(s, p + 1, Len(s)))

\* data_lines.join("\n")
RECURSIVE join_lines(_)
join_lines(ls) ==
    IF ls = << >> THEN << >>
    ELSE IF Len(ls) = 1 THEN ls[1]
    ELSE ls[1] \o << NL >> \o join_lines(Tail(ls))

\* str::trim (serde_json skips the same white space)
RECURSIVE trim(_)
trim(s) ==
    IF s # << >> /\ s[1].k = "nl" THEN trim(Tail(s))
    ELSE IF s # << >> /\ s[Len(s)].k = "nl" THEN trim(SubSeq(s, 1, Len(s) - 1))
    ELSE s

parse_and_process_sse_event(c, protocol, event) ==
    LET lines == split_lines(event)
        data_lines == SelectSeq(lines, LAMBDA l : l # << >> /\ l[1].k = "data")
        data == trim(join_lines([i \in 1..Len(data_lines) |->
                                    Tail(data_lines[i])]))
    IN IF data_lines = << >> THEN c
       ELSE IF data = << DONE >> THEN c
       ELSE IF is_json(data) THEN extract_usage_from_json(c, protocol, data[1])
       ELSE c

\* Index of the first "\n\n" of s, 0 when there is none.
find_event_end(s) ==
    IF \E i \in 1..(Len(s) - 1) : s[i].k = "nl" /\ s[i + 1].k = "nl"
    THEN CHOOSE i \in 1..(Len(s) - 1) :
           /\ s[i].k = "nl" /\ s[i + 1].k = "nl"
           /\ \A j \in 1..(i - 1) : ~ (s[j].k = "nl" /\ s[j + 1].k = "nl")
    ELSE 0

\* process_chunk's loop over the complete events of the buffer.
RECURSIVE drain_events(_, _)
drain_events(c, protocol) ==
    LET e == find_event_end(c.buffer)
    IN IF e = 0 THEN c
       ELSE drain_events(
              parse_and_process_sse_event(
                  [c EXCEPT !.buffer = SubSeq(@, e + 2, Len(@))],
                  protocol, SubSeq(c.buffer, 1, e - 1)),
              protocol)

\* A process_chunk that never clears its buffer.
process_chunk_unbounded(c, protocol, chunk) ==
    IF \E i \in 1..Len(chunk) : chunk[i].k = "bad"
    THEN c
    ELSE drain_events([c EXCEPT !.buffer = @ \o chunk], protocol)

process_chunk(c, protocol, chunk) ==
    IF \E i \in 1..Len(chunk) : chunk[i].k = "bad"
    THEN c
    ELSE LET c1 == drain_events([c EXCEPT !.buffer = @ \o chunk], protocol)
         IN IF bytes_len(c1.buffer) > BufferCap
            THEN [c1 EXCEPT !.buffer = << >>]
            ELSE c1

\* A tap that hands on the chunk as it decoded it, invalid bytes dropped.
wrap_yield_lossy(chunk) == SelectSeq(chunk, LAMBDA a : a.k # "bad")

\* What wrap_stream yields for a chunk it has pulled: yield Ok(chunk).
wrap_yield(chunk) == chunk

(***************************************************************************)
(* Upstream streams.                                                       *)
(***************************************************************************)
MaxChunks == 3       \* most chunks the upstream cuts its bytes into

OpenAIWire ==
    LET chunk == [Json EXCEPT !.id = "c", !.choice = TRUE, !.has_text = TRUE]
    IN format_sse("", [chunk EXCEPT !.role = "assistant"])
       \o format_sse("", [chunk EXCEPT !.text = << "h" >>])
       \o format_sse("", [chunk EXCEPT !.text = << "i" >>, !.stop = "stop",
                                       !.tin = Some(1), !.tout = Some(2)])
       \o format_sse("", DONE)

AnthropicWire ==
    format_sse("message_start",
               [Json EXCEPT !.t = "message_start", !.id = "a", !.tin = Some(1)])
    \o format_sse("content_block_delta",
                  [Json EXCEPT !.t = "content_block_delta", !.has_text = TRUE,
                               !.text = << "h" >>])
    \o format_sse("content_block_delta",
                  [Json EXCEPT !.t = "content_block_delta", !.has_text = TRUE,
                               !.text = << "i" >>])
    \o format_sse("message_delta",
                  [Json EXCEPT !.t = "message_delta", !.stop = "end_turn",
                               !.tout = Some(2)])
    \o format_sse("message_stop", [Json EXCEPT !.t = "message_stop"])

\* Bytes without an event terminator: more than the buffer cap, some of them
\* not UTF-8.
JunkWire == << FILL, BAD, FILL >>

\* A single JSON document instead of SSE.
PlainJsonWire == << [Json EXCEPT !.id = "c", !.tin = Some(1), !.tout = Some(2)] >>

\* The events of an upstream of a protocol.
EventWire(source_protocol) ==
    IF source_protocol = "anthropic" THEN AnthropicWire ELSE OpenAIWire

\* More bytes than the buffer cap without an event terminator, and then the
\* events of the stream.
OverflowWire(source_protocol) == << FILL, FILL >> \o EventWire(source_protocol)

Wires(source_protocol) ==
    { EventWire(source_protocol), JunkWire, PlainJsonWire,
      OverflowWire(source_protocol) }

ProtocolPairs ==
    { [src |-> s, cli |-> c] : s \in {"openai", "anthropic", "custom"},
                               c \in {"openai", "anthropic"} }

collector_state(c) ==
    [buffer |-> c.buffer, input_tokens |-> c.input_tokens,
     output_tokens |-> c.output_tokens]

collector_with(c, events) ==
    [buffer |-> c.buffer, input_tokens |-> c.input_tokens,
     output_tokens |-> c.output_tokens, events |-> events]

InitStreamIdle ==
    /\ sproto = [src |-> "openai", cli |-> "openai"]
    /\ wire = << >>
    /\ pos = 0
    /\ upItems = << >>
    /\ wrapped = << >>
    /\ clientOut = << >>
    /\ collector = collector_state(InitCollector)
    /\ translator = InitTranslator("")
    /\ streamEvents = << >>
    /\ spc = "idle"

InitThreadsIdle ==
    /\ thr = << >>
    /\ hist = << >>
    /\ first = << >>

(***************************************************************************)
(* Specification Spec: the request pipeline.                               *)
(***************************************************************************)
InitStore ==
    /\ cache = << >>
    /\ now = 0

InitPipeline ==
    /\ pc = [r \in Requests |-> "idle"]
    /\ req = [r \in Requests |-> DefaultReq]
    /\ candidates = [r \in Requests |-> << >>]
    /\ idx = [r \in Requests |-> 0]
    /\ retry_count = [r \in Requests |-> 0]
    /\ posts = [r \in Requests |-> 0]
    /\ api_response = [r \in Requests |-> "none"]
    /\ attempts = [r \in Requests |-> << >>]
    /\ errorEvents = [r \in Requests |-> << >>]
    /\ usageEvents = [r \in Requests |-> << >>]
    /\ telemetry = [r \in Requests |-> NoPosts]
    /\ response = [r \in Requests |-> NoResponse]

\* A resolve that never takes the cached list.
resolved_from_cache_never(g) == FALSE

\* resolve_route returns the cached list: the get hit and the list is not empty.
resolved_from_cache(g) == g.hit /\ g.configs # << >>

\* handle_request up to its first suspension inside resolve_route: the checks
\* of the Authorization header and of the model field, then the cache lookup.
handle_request(r) ==
    /\ pc[r] = "idle"
    /\ \E q \in RequestInputs :
         /\ req' = [req EXCEPT ![r] = q]
         /\ IF ~q.auth
            THEN /\ response' = [response EXCEPT ![r] =
                                    error_response(401, << "Missing authorization" >>)]
                 /\ pc' = [pc EXCEPT ![r] = "done"]
                 /\ UNCHANGED << cache, candidates, idx >>
            ELSE IF ~q.has_model
            THEN /\ response' = [response EXCEPT ![r] =
                                    error_response(400, << "Missing model field" >>)]
                 /\ pc' = [pc EXCEPT ![r] = "done"]
                 /\ UNCHANGED << cache, candidates, idx >>
            ELSE LET g == cache_get(cache, make_key(q.token, q.model), now)
                 IN  /\ cache' = g.store
                     /\ UNCHANGED response
                     /\ IF resolved_from_cache(g)
                        THEN /\ candidates' = [candidates EXCEPT ![r] = g.configs]
                             /\ idx' = [idx EXCEPT ![r] = 1]
                             /\ pc' = [pc EXCEPT ![r] = "forward"]
                        ELSE /\ pc' = [pc EXCEPT ![r] = "fetch"]
                             /\ UNCHANGED << candidates, idx >>
    /\ UNCHANGED << now, retry_count, posts, api_response, attempts, errorEvents,
                    usageEvents, telemetry >>
    /\ UNCHANGED << streamVars, thrVars >>

\* A retry policy that sends the POST again after any answer that is an error.
should_retry_any_error(kind, retries) == kind # "success" /\ retries < RetryAttempts

\* The two retry arms of the loop of fetch_from_business_api: a 5xx status
\* or a transport error, with retry_count < max_retries.
should_retry(kind, retries) ==
    kind \in {"status5xx", "transport"} /\ retries < RetryAttempts

\* A resolve_route that caches whatever list the business API returned.
should_cache_always(configs) == TRUE

\* Step 3 of resolve_route: the list is cached if !configs.is_empty().
should_cache(configs) == configs # << >>

\* One POST of fetch_from_business_api and what resolve_route and
\* handle_request do with its answer.
fetch_from_business_api(r) ==
    /\ pc[r] = "fetch"
    /\ posts' = [posts EXCEPT ![r] = @ + 1]
    /\ \E a \in BusinessAnswers :
         /\ api_response' = [api_response EXCEPT ![r] = a.kind]
         /\ IF should_retry(a.kind, retry_count[r])
            THEN /\ retry_count' = [retry_count EXCEPT ![r] = @ + 1]
                 /\ UNCHANGED << cache, candidates, idx, pc, response >>
            ELSE IF a.kind = "success"
            THEN /\ cache' = IF should_cache(a.data)
                             THEN cache_set(cache, make_key(req[r].token, req[r].model),
                                            now, a.data)
                             ELSE cache
                 /\ candidates' = [candidates EXCEPT ![r] = a.data]
                 /\ IF a.data = << >>
                    THEN /\ response' = [response EXCEPT ![r] =
                                            error_response(503, << "All routes failed" >>)]
                         /\ pc' = [pc EXCEPT ![r] = "done"]
                         /\ UNCHANGED idx
                    ELSE /\ idx' = [idx EXCEPT ![r] = 1]
                         /\ pc' = [pc EXCEPT ![r] = "forward"]
                         /\ UNCHANGED response
                 /\ UNCHANGED retry_count
            ELSE /\ response' = [response EXCEPT ![r] =
                                    error_response(503, << "No available routes" >>)]
                 /\ pc' = [pc EXCEPT ![r] = "done"]
                 /\ UNCHANGED << cache, candidates, idx, retry_count >>
    /\ UNCHANGED << now, req, attempts, errorEvents, usageEvents, telemetry >>
    /\ UNCHANGED << streamVars, thrVars >>

\* The configs of the live entry of a key, none when the key is absent.
live_configs(store, key) ==
    IF key \in DOMAIN store THEN store[key].configs ELSE << >>

\* A loop that reads the entry of the cache each time round.
route_configs_live(returned_list, store, key) == live_configs(store, key)

\* The list the failover loop iterates: the Vec<RouteConfig> resolve_route
\* returned, a clone of the entry's list.
route_configs(returned_list, store, key) == returned_list

\* One iteration of the failover loop of handle_stream / handle_non_stream on
\* the candidate the loop is at, and the loop's exit when it was the last.
forward_candidate(r) ==
    /\ pc[r] = "forward"
    /\ report_returns(telemetry[r])
    /\ idx[r] \in 1..Len(route_configs(candidates[r], cache,
                                       make_key(req[r].token, req[r].model)))
    /\ \E u \in UpstreamOutcomes :
         LET route_list == route_configs(candidates[r], cache,
                                         make_key(req[r].token, req[r].model))
             route == route_list[idx[r]]
             it    == IF req[r].stream
                      THEN stream_iteration(req[r].client_protocol, req[r].shape_ok, route, u)
                      ELSE non_stream_iteration(req[r].client_protocol, req[r].shape_ok,
                                                route, u)
             store == IF it.evict
                      THEN remove_failed_route(cache, req[r].token, req[r].model, route)
                      ELSE cache
             rec   == [idx |-> idx[r], route |-> route, forwarded |-> it.forwarded,
                       outcome |-> it.outcome,
                       status |-> IF it.forwarded THEN u.status ELSE 0,
                       kind |-> IF it.forwarded THEN u.kind ELSE "none",
                       body |-> IF it.forwarded /\ ~req[r].stream THEN u.body ELSE "none",
                       text |-> IF it.forwarded THEN u.text ELSE << >>,
                       evict |-> it.evict, cache_same |-> (store = cache)]
         IN  /\ attempts' = [attempts EXCEPT ![r] = Append(@, rec)]
             /\ cache' = store
             /\ errorEvents' = [errorEvents EXCEPT ![r] =
                                   IF it.error_event THEN Append(@, route.api_endpoint)
                                   ELSE @]
             /\ usageEvents' = [usageEvents EXCEPT ![r] =
                                   IF it.usage_event
                                   THEN Append(@, [request_id |-> r,
                                                   api |-> route.api_endpoint])
                                   ELSE @]
             /\ telemetry' = [telemetry EXCEPT ![r] =
                                 spawn_post(@, (IF it.error_event THEN 1 ELSE 0)
                                               + (IF it.usage_event THEN 1 ELSE 0))]
             /\ idx' = [idx EXCEPT ![r] = next_candidate(@)]
             /\ IF it.return
                THEN /\ response' = [response EXCEPT ![r] =
                                        [it.response EXCEPT !.from = idx[r]]]
                     /\ pc' = [pc EXCEPT ![r] = "done"]
                ELSE IF next_candidate(idx[r]) > Len(route_list)
                THEN /\ response' = [response EXCEPT ![r] =
                                        error_response(503, << "All routes failed" >>)]
                     /\ pc' = [pc EXCEPT ![r] = "done"]
                ELSE UNCHANGED << response, pc >>
    /\ UNCHANGED << now, req, candidates, retry_count, posts, api_response >>
    /\ UNCHANGED << streamVars, thrVars >>

\* The response is sent; the task takes the next inbound request.
next_request(r) ==
    /\ pc[r] = "done"
    /\ pc' = [pc EXCEPT ![r] = "idle"]
    /\ req' = [req EXCEPT ![r] = DefaultReq]
    /\ candidates' = [candidates EXCEPT ![r] = << >>]
    /\ idx' = [idx EXCEPT ![r] = 0]
    /\ retry_count' = [retry_count EXCEPT ![r] = 0]
    /\ posts' = [posts EXCEPT ![r] = 0]
    /\ api_response' = [api_response EXCEPT ![r] = "none"]
    /\ attempts' = [attempts EXCEPT ![r] = << >>]
    /\ errorEvents' = [errorEvents EXCEPT ![r] = << >>]
    /\ usageEvents' = [usageEvents EXCEPT ![r] = << >>]
    /\ telemetry' = [telemetry EXCEPT ![r] = NoPosts]
    /\ response' = [response EXCEPT ![r] = NoResponse]
    /\ UNCHANGED << cache, now, streamVars, thrVars >>

\* A cache operation of another request in flight on the same key: the
\* lookup of its resolve, the set after its fetch, or the eviction of a
\* candidate that failed for it.
concurrent_request ==
    /\ \E t \in UserTokens, m \in Models :
         \/ cache' = cache_get(cache, make_key(t, m), now).store
         \/ \E l \in RouteLists \ { << >> } :
                cache' = cache_set(cache, make_key(t, m), now, l)
         \/ \E c \in Routes : cache' = remove_failed_route(cache, t, m, c)
    /\ UNCHANGED << now, pipeVars, streamVars, thrVars >>

Init == InitStore /\ InitPipeline /\ InitStreamIdle /\ InitThreadsIdle

Next ==
    \/ \E r \in Requests : handle_request(r)
    \/ \E r \in Requests : fetch_from_business_api(r)
    \/ \E r \in Requests : forward_candidate(r)
    \/ \E r \in Requests : next_request(r)
    \/ concurrent_request

\* The pipeline is followed within one clock tick: a lookup that misses because
\* the entry expired leaves the pipeline where a lookup of an absent entry
\* does, and concurrent_request can remove the entry.  Expiry is followed in
\* SpecCache.
Spec == Init /\ [][Next]_vars

\* A spawned telemetry task gets the result of its POST, Ok or Err, and
\* drops it (let _ = ...).  A POST that never completes stays pending.
telemetry_post(r) ==
    /\ telemetry[r].pending > 0
    /\ \E result \in {"ok", "failed"} :
         telemetry' = [telemetry EXCEPT ![r].pending = @ - 1, ![r][result] = @ + 1]
    /\ UNCHANGED << pc, req, candidates, idx, retry_count, posts, api_response,
                    attempts, errorEvents, usageEvents, response >>
    /\ UNCHANGED << storeVars, streamVars, thrVars >>

NextTelemetry ==
    \/ Next
    \/ \E r \in Requests : telemetry_post(r)

\* The pipeline together with the telemetry tasks it spawns.
SpecTelemetry == Init /\ [][NextTelemetry]_vars

\* The pipeline with the fetch making progress: the reqwest client of the
\* router is built with a timeout, so every POST is answered or fails, and
\* the sleep before a retry is finite.
SpecFair == Spec /\ \A r \in Requests : WF_vars(fetch_from_business_api(r))

(***************************************************************************)
(* Specification SpecStream: one upstream stream that proxy.stream has     *)
(* established, wrapped by the usage collector, translated, and pulled by   *)
(* the response body.                                                      *)
(***************************************************************************)
InitStream ==
    /\ sproto \in ProtocolPairs
    /\ wire \in Wires(sproto.src)
    /\ pos = 0
    /\ upItems = << >>
    /\ wrapped = << >>
    /\ clientOut = << >>
    /\ collector = collector_state(InitCollector)
    /\ translator = InitTranslator(IF sproto.src = "anthropic"
                                   THEN "chatcmpl-unknown" ELSE "")
    /\ streamEvents = << >>
    /\ spc = "open"

\* The body pulls an item and the upstream has bytes: wrap_stream taps the
\* chunk and yields it, the translator's closure runs on it.
stream_chunk ==
    /\ spc = "open"
    /\ pos < Len(wire)
    /\ Len(upItems) < MaxChunks
    /\ \E n \in IF Len(upItems) = MaxChunks - 1
                THEN {Len(wire) - pos} ELSE 1..(Len(wire) - pos) :
         LET chunk == SubSeq(wire, pos + 1, pos + n)
             c == process_chunk(collector_with(collector, streamEvents),
                                sproto.src, chunk)
             item == OkItem(wrap_yield(chunk))
             t == transform_stream_chunk(sproto.src, sproto.cli,
                                         translator, item)
         IN /\ pos' = pos + n
            /\ upItems' = Append(upItems, OkItem(chunk))
            /\ collector' = collector_state(c)
            /\ streamEvents' = c.events
            /\ wrapped' = Append(wrapped, item)
            /\ clientOut' = Append(clientOut, t.item)
            /\ translator' = captured_after(translator, t.local)
    /\ UNCHANGED << sproto, wire, spc >>
    /\ UNCHANGED << storeVars, pipeVars, thrVars >>

\* A handler that takes up its loop again when the stream it returned fails.
after_stream_item_failover(p) == IF p = "body" THEN "forward" ELSE p

\* Where the task of a request is after an item of the stream it returned:
\* handle_stream returned the response before the body is pulled, and the
\* items go from the stream to the body without passing through it again.
after_stream_item(p) == p

\* The rest of the request's state when an item is pulled.
stream_frame ==
    /\ pc' = [r \in Requests |-> after_stream_item(pc[r])]
    /\ UNCHANGED << req, candidates, idx, retry_count, posts, api_response,
                    attempts, errorEvents, usageEvents, telemetry, response >>
    /\ UNCHANGED << storeVars, thrVars >>

\* The body pulls an item and the upstream connection fails: wrap_stream
\* yields the error, the translator hands it on.
stream_error ==
    /\ spc = "open"
    /\ upItems' = Append(upItems, ErrItem)
    /\ wrapped' = Append(wrapped, ErrItem)
    /\ clientOut' = Append(clientOut,
           transform_stream_chunk(sproto.src, sproto.cli,
                                  translator, ErrItem).item)
    /\ spc' = "errored"
    /\ UNCHANGED << sproto, wire, pos, collector, translator, streamEvents >>
    /\ stream_frame

\* The body pulls again and the wrapped stream is over (the upstream has
\* ended, or wrap_stream has left its loop after an error): the final
\* report_usage.
stream_end ==
    /\ \/ spc = "open" /\ pos = Len(wire)
       \/ spc = "errored"
    /\ streamEvents' =
           report_usage(collector_with(collector, streamEvents)).events
    /\ spc' = "ended"
    /\ UNCHANGED << sproto, wire, pos, upItems, wrapped, clientOut, collector,
                    translator >>
    /\ stream_frame

\* The body is dropped without another pull (the client has gone away).
stream_drop ==
    /\ spc \in {"open", "errored"}
    /\ spc' = "dropped"
    /\ UNCHANGED << sproto, wire, pos, upItems, wrapped, clientOut, collector,
                    translator, streamEvents >>
    /\ UNCHANGED << storeVars, pipeVars, thrVars >>

InitS == InitStore /\ InitPipeline /\ InitStream /\ InitThreadsIdle

NextStream ==
    \/ stream_chunk
    \/ stream_error
    \/ stream_end
    \/ stream_drop

SpecStream == InitS /\ [][NextStream]_vars

(***************************************************************************)
(* Specification SpecCache: tasks on the worker threads of the runtime     *)
(* calling get, set and remove_config on one key at the same time.  The    *)
(* functions do not await: a step is one operation on the DashMap, which    *)
(* holds the shard lock for that operation only.  An operation reads the   *)
(* clock once, when it is called.                                          *)
(***************************************************************************)
Threads == {1, 2}

TheKey == make_key(<< "u" >>, << "m" >>)

Miss == [hit |-> FALSE, configs |-> << >>]

IdleThread ==
    [pc |-> "idle", op |-> "none", arg |-> << >>, now |-> 0,
     need_remove |-> FALSE, ret |-> Miss]

\* The calls a task can make: the operation and its argument (the configs
\* to set, or the failed config).
CacheCalls ==
    { [op |-> "get", arg |-> << >>] }
    \cup { [op |-> "set", arg |-> l] : l \in RouteLists \ { << >> } }
    \cup { [op |-> "remove_config", arg |-> << c >>] : c \in Routes }
    \cup { [op |-> "clear", arg |-> << >>] }

\* The store the tasks start from: empty, or a set of one config at time 0.
FirstStore == cache_set(<< >>, TheKey, 0, << RA >>)

FirstStores == { << >>, FirstStore }

InitCache ==
    /\ cache \in FirstStores
    /\ first = cache
    /\ now = 0
    /\ thr = [t \in Threads |-> IdleThread]
    /\ hist = << >>

returned(t, ret) ==
    /\ thr' = [thr EXCEPT ![t].pc = "done", ![t].ret = ret]
    /\ hist' = Append(hist, [t |-> t, kind |-> "ret"])

\* A task calls an operation: make_key and Instant::now().
cache_call(t) ==
    /\ thr[t].pc = "idle"
    /\ \E c \in CacheCalls :
         thr' = [thr EXCEPT ![t] = [IdleThread EXCEPT !.pc = c.op,
                                                      !.op = c.op,
                                                      !.arg = c.arg,
                                                      !.now = now]]
    /\ hist' = Append(hist, [t |-> t, kind |-> "call"])
    /\ UNCHANGED << cache, now, first, pipeVars, streamVars >>

\* get, phase 1: storage.get and the two expiry checks.
get_phase1(t) ==
    /\ thr[t].pc = "get"
    /\ LET need_remove == get_need_remove(cache, TheKey, thr[t].now)
       IN thr' = [thr EXCEPT ![t].need_remove = need_remove,
                             ![t].pc = IF need_remove THEN "get_remove"
                                                      ELSE "get_refresh"]
    /\ UNCHANGED << cache, now, hist, first, pipeVars, streamVars >>

\* get, phase 2: storage.remove and return None.
get_phase2(t) ==
    /\ thr[t].pc = "get_remove"
    /\ cache' = storage_remove(cache, TheKey)
    /\ returned(t, Miss)
    /\ UNCHANGED << now, first, pipeVars, streamVars >>

\* get, phase 3: storage.get_mut, the refresh, and the return.
get_phase3(t) ==
    /\ thr[t].pc = "get_refresh"
    /\ LET r == get_refresh(cache, TheKey, thr[t].now)
       IN /\ cache' = r.store
          /\ returned(t, [hit |-> r.hit, configs |-> r.configs])
    /\ UNCHANGED << now, first, pipeVars, streamVars >>

\* set: storage.insert.
set_insert(t) ==
    /\ thr[t].pc = "set"
    /\ cache' = storage_insert(cache, TheKey, new_entry(thr[t].arg, thr[t].now))
    /\ returned(t, Miss)
    /\ UNCHANGED << now, first, pipeVars, streamVars >>

\* remove_config, the block holding the guard of storage.get_mut.
remove_config_phase1(t) ==
    /\ thr[t].pc = "remove_config"
    /\ LET r == remove_retain(cache, TheKey, thr[t].arg[1])
       IN /\ cache' = r.store
          /\ IF r.should_remove_entry
             THEN /\ thr' = [thr EXCEPT ![t].pc = "remove_entry"]
                  /\ UNCHANGED hist
             ELSE returned(t, Miss)
    /\ UNCHANGED << now, first, pipeVars, streamVars >>

\* remove_config, after the guard is released: storage.remove.
remove_config_phase2(t) ==
    /\ thr[t].pc = "remove_entry"
    /\ cache' = storage_remove(cache, TheKey)
    /\ returned(t, Miss)
    /\ UNCHANGED << now, first, pipeVars, streamVars >>

\* clear: storage.clear.
clear(t) ==
    /\ thr[t].pc = "clear"
    /\ cache' = storage_clear(cache)
    /\ returned(t, Miss)
    /\ UNCHANGED << now, first, pipeVars, streamVars >>

\* Time passes.
Tick ==
    /\ now < MaxTime
    /\ now' = now + 1
    /\ UNCHANGED << cache, pipeVars, streamVars, thrVars >>

InitC == InitCache /\ InitPipeline /\ InitStreamIdle

NextCache ==
    \/ \E t \in Threads :
         \/ cache_call(t)
         \/ get_phase1(t)
         \/ get_phase2(t)
         \/ get_phase3(t)
         \/ set_insert(t)
         \/ remove_config_phase1(t)
         \/ remove_config_phase2(t)
         \/ clear(t)
    \/ Tick

SpecCache == InitC /\ [][NextCache]_vars

(***************************************************************************)
(* Specification SpecSeq: one caller using the cache of one key, a call    *)
(* returning before the next is made (get, set, clear, and remove_config   *)
(* through Router::remove_failed_route), with the clock advancing between  *)
(* calls.  hist is the log of the calls: the operation, its argument, the  *)
(* clock it read, what it returned and the store before and after it.      *)
(***************************************************************************)
MaxOps == 2          \* calls the caller makes

\* A config of the same upstream as RA (token and api_endpoint) under other IDs.
RA2 == RouteConfig("ta", "ea", "openai", "m4")

SeqRoutes == {RA, RA2, RB}

\* The lists the key can hold when the caller starts: the configs in any order.
SeqLists ==
    { l \in UNION { [1..n -> SeqRoutes] : n \in 1..Cardinality(SeqRoutes) } :
        NoDup(l) }

\* The lists the caller sets.
SetLists == { l \in RouteLists : l # << >> /\ \A i \in 1..Len(l) : l[i] \in {RA, RB} }

InitSeq ==
    /\ cache \in { << >> } \cup { cache_set(<< >>, TheKey, 0, l) : l \in SeqLists }
    /\ first = cache
    /\ now = 0
    /\ thr = << >>
    /\ hist = << >>

logged(op, arg, ret, store) ==
    /\ cache' = store
    /\ hist' = Append(hist, [op |-> op, arg |-> arg, now |-> now, ret |-> ret,
                             before |-> cache, after |-> store])
    /\ UNCHANGED << now, thr, first, pipeVars, streamVars >>

call_get ==
    /\ Len(hist) < MaxOps
    /\ LET r == cache_get(cache, TheKey, now)
       IN logged("get", << >>, get_result(r), r.store)

call_set ==
    /\ Len(hist) < MaxOps
    /\ \E l \in SetLists :
         logged("set", l, Miss, cache_set(cache, TheKey, now, l))

call_remove_failed_route ==
    /\ Len(hist) < MaxOps
    /\ \E c \in SeqRoutes :
         logged("remove_failed_route", << c >>, Miss,
                remove_failed_route(cache, << "u" >>, << "m" >>, c))

call_clear ==
    /\ Len(hist) < MaxOps
    /\ logged("clear", << >>, Miss, storage_clear(cache))

InitQ == InitSeq /\ InitPipeline /\ InitStreamIdle

NextSeq ==
    \/ call_get
    \/ call_set
    \/ call_remove_failed_route
    \/ call_clear
    \/ Tick

SpecSeq == InitQ /\ [][NextSeq]_vars

(***************************************************************************)
(* Claims about the pipeline, checked under Spec.                          *)
(***************************************************************************)
Is5xxOrTransport(a) ==
    a.kind = "transport" \/ (a.kind = "status" /\ a.status \in 500..599)

Is4xx(a) == a.kind = "status" /\ a.status \in 400..499

\* C1: a candidate whose forwarding failed with an upstream 5xx or a transport
\* error is evicted and the loop goes on; the response to the client is never
\* the one built from that candidate's failure.
C1_EvictAndContinue ==
    \A r \in Requests : \A i \in 1..Len(attempts[r]) :
        Is5xxOrTransport(attempts[r][i]) =>
            /\ attempts[r][i].outcome = "evicted"
            /\ attempts[r][i].evict
            /\ response[r].from # i

\* C2: an upstream 4xx of any status stops failover (its attempt is the last
\* one) and the client's response carries that same status.
C2_ClientErrorStops ==
    \A r \in Requests : \A i \in 1..Len(attempts[r]) :
        Is4xx(attempts[r][i]) =>
            /\ i = Len(attempts[r])
            /\ pc[r] = "done"
            /\ response[r].status = attempts[r][i].status

\* C3: an upstream 4xx leaves the route cache as it was: remove_failed_route is
\* not called for the candidate and the cache entry is unchanged by the step.
C3_ClientErrorKeepsCache ==
    \A r \in Requests : \A i \in 1..Len(attempts[r]) :
        Is4xx(attempts[r][i]) =>
            /\ ~attempts[r][i].evict
            /\ attempts[r][i].cache_same

\* C4: the loop takes the candidates in the order of the list resolve
\* returned, each at most once, and takes candidate i+1 only after the attempt
\* on candidate i ended in failure.
C4_FailoverOrder ==
    \A r \in Requests :
        /\ Len(attempts[r]) <= Len(candidates[r])
        /\ \A i \in 1..Len(attempts[r]) :
              /\ attempts[r][i].idx = i
              /\ attempts[r][i].route = candidates[r][i]
              /\ i < Len(attempts[r]) =>
                    attempts[r][i].outcome \in
                        {"transform_request_failed", "empty_body",
                         "transform_response_failed", "evicted"}

\* Two candidates were forwarded to, the second after the first failed.
C4_Witness ==
    \E r \in Requests :
        /\ Len(attempts[r]) = 2
        /\ attempts[r][1].forwarded
        /\ attempts[r][1].outcome = "evicted"
        /\ attempts[r][2].forwarded
        /\ attempts[r][2].outcome = "ok"

\* C5: a request answered 200 has handed at most one UsageEvent with its
\* request_id to telemetry.
C5_AtMostOneUsageEvent ==
    \A r \in Requests :
        (pc[r] = "done" /\ response[r].status = 200) =>
            Cardinality({ i \in 1..Len(usageEvents[r]) :
                            usageEvents[r][i].request_id = r }) <= 1

(***************************************************************************)
(* Claims about streams, checked under SpecStream.                         *)
(***************************************************************************)
RECURSIVE flatten(_)
flatten(items) ==
    IF items = << >> THEN << >>
    ELSE Head(items).bytes \o flatten(Tail(items))

\* The concatenation of the text deltas carried by well-formed SSE bytes of
\* a protocol: choices[0].delta.content, or delta.text of content_block_delta.
RECURSIVE text_of(_, _)
text_of(bytes, protocol) ==
    IF bytes = << >> THEN << >>
    ELSE LET a == Head(bytes)
             is_delta == /\ a.k = "json" /\ a.has_text
                         /\ IF protocol = "anthropic"
                            THEN a.t = "content_block_delta" ELSE a.choice
         IN (IF is_delta THEN a.text ELSE << >>)
            \o text_of(Tail(bytes), protocol)

CrossProtocol ==
    \/ sproto.src = "openai" /\ sproto.cli = "anthropic"
    \/ sproto.src = "anthropic" /\ sproto.cli = "openai"

SameProtocol == sproto.src = sproto.cli

EndsMidLine(item) ==
    item.ok /\ item.bytes # << >> /\ item.bytes[Len(item.bytes)].k # "nl"

\* The bytes of a chunk up to and including its last "\n".
RECURSIVE whole_lines(_)
whole_lines(bytes) ==
    IF bytes = << >> \/ bytes[Len(bytes)].k = "nl" THEN bytes
    ELSE whole_lines(SubSeq(bytes, 1, Len(bytes) - 1))

translated(bytes) ==
    transform_stream_chunk(sproto.src, sproto.cli, translator,
                           OkItem(bytes)).item.bytes

\* C6: when a stream translated between the two protocols has been delivered
\* whole, the text deltas the client received, concatenated, are the text
\* deltas the upstream sent, concatenated, however the bytes were cut into
\* chunks.
C6_TextPreserved ==
    (CrossProtocol /\ spc = "ended" /\ pos = Len(wire)
        /\ \A i \in 1..Len(upItems) : upItems[i].ok)
    => text_of(flatten(clientOut), sproto.cli) = text_of(wire, sproto.src)

\* C7: when a chunk ends in the middle of a line, the translator emits for
\* it only what its complete lines give, and its output for that chunk and
\* the next one together is its output for the two chunks arriving as one.
C7_SplitLineJoined ==
    CrossProtocol =>
      \A k \in 1..(Len(upItems) - 1) :
        (EndsMidLine(upItems[k]) /\ upItems[k + 1].ok) =>
          /\ clientOut[k].bytes = translated(whole_lines(upItems[k].bytes))
          /\ clientOut[k].bytes \o clientOut[k + 1].bytes
               = translated(upItems[k].bytes \o upItems[k + 1].bytes)

\* C8: on a stream whose upstream and client speak the same protocol the
\* client receives the upstream's items: as many, in the same order, each
\* with the same bytes.
C8_SameProtocolPassThrough ==
    SameProtocol => clientOut = upItems

C8_Witness ==
    /\ SameProtocol
    /\ spc = "ended"
    /\ Len(upItems) = MaxChunks
    /\ EndsMidLine(upItems[1])
    /\ wire \in {OpenAIWire, AnthropicWire}
    /\ clientOut = upItems

\* C9: wrap_stream yields the upstream's items, the same number in the same
\* order with the same bytes, and none after an error item.
C9_WrapStreamFaithful ==
    /\ wrapped = upItems
    /\ \A i \in 1..(Len(wrapped) - 1) : wrapped[i].ok

C9_Witness ==
    /\ wire = JunkWire
    /\ spc = "ended"
    /\ Len(wrapped) = 4
    /\ wrapped[2].bytes = << BAD >>
    /\ ~ wrapped[4].ok
    /\ collector.buffer = << >>
    /\ wrapped = upItems

(***************************************************************************)
(* Claims about the cache under concurrency, checked under SpecCache.      *)
(***************************************************************************)
\* An operation run without interruption on a store: the store it leaves
\* and what it returns.
run_atomically(store, c) ==
    CASE c.op = "get" ->
           LET r == cache_get(store, TheKey, c.now)
           IN [store |-> r.store,
               ret |-> [hit |-> r.hit, configs |-> r.configs]]
      [] c.op = "set" ->
           [store |-> cache_set(store, TheKey, c.now, c.arg), ret |-> Miss]
      [] c.op = "remove_config" ->
           [store |-> cache_remove_config(store, TheKey, c.arg[1]),
            ret |-> Miss]
      [] c.op = "clear" ->
           [store |-> storage_clear(store), ret |-> Miss]

\* The store after the threads of order[1..k] ran one after the other from
\* the store start; ok tells whether each returned what it returned in the
\* execution.
RECURSIVE run_in_order(_, _, _)
run_in_order(start, order, k) ==
    IF k = 0 THEN [ok |-> TRUE, store |-> start]
    ELSE LET before == run_in_order(start, order, k - 1)
             r == run_atomically(before.store, thr[order[k]])
         IN IF before.ok /\ r.ret = thr[order[k]].ret
            THEN [ok |-> TRUE, store |-> r.store]
            ELSE [ok |-> FALSE, store |-> start]

event_index(t, kind) ==
    CHOOSE i \in 1..Len(hist) : hist[i].t = t /\ hist[i].kind = kind

\* a returned before b was called
precedes(a, b) == event_index(a, "ret") < event_index(b, "call")

Orders ==
    { o \in [1..Cardinality(Threads) -> Threads] :
        \A i, j \in 1..Cardinality(Threads) : i # j => o[i] # o[j] }

AllReturned == \A t \in Threads : thr[t].pc = "done"

\* C10: once the concurrent operations on the key have returned, there is an
\* order of them that keeps every operation that returned before another
\* was called ahead of it, and in which, run one after the other from the
\* store they started from, they return what they returned and leave the
\* entry they left.
C10_Linearizable ==
    (DOMAIN thr = Threads /\ AllReturned) =>
      \E o \in Orders :
        /\ \A i, j \in 1..Cardinality(Threads) :
             precedes(o[j], o[i]) => j < i
        /\ LET r == run_in_order(first, o, Cardinality(Threads))
           IN r.ok /\ r.store = cache

\* C11: a get on the key while another task runs remove_config on it returns
\* what a get returns on the entry as it was before the eviction or on the
\* entry as the eviction leaves it, and never a hit with an empty list.
C11_NoPartialEviction ==
    \A g, e \in DOMAIN thr :
      (thr[g].op = "get" /\ thr[g].pc = "done" /\ thr[e].op = "remove_config")
      => LET evicted == cache_remove_config(first, TheKey, thr[e].arg[1])
         IN /\ thr[g].ret \in
                 { get_result(cache_get(first, TheKey, thr[g].now)),
                   get_result(cache_get(evicted, TheKey, thr[g].now)) }
            /\ thr[g].ret.hit => thr[g].ret.configs # << >>

(***************************************************************************)
(* More claims about the pipeline, checked under Spec.                     *)
(***************************************************************************)
\* C12: the failover loop works on the list resolve returned, whatever other
\* requests do to the live entry meanwhile: every attempt is on the config at
\* its position in that list, and a request that ran out of candidates has
\* tried every config of the list.
C12_SnapshotIterated ==
    \A r \in Requests :
      /\ \A i \in 1..Len(attempts[r]) :
           i <= Len(candidates[r]) /\ attempts[r][i].route = candidates[r][i]
      /\ (pc[r] = "done" /\ attempts[r] # << >> /\ response[r].from = 0)
           => Len(attempts[r]) = Len(candidates[r])

\* The second candidate was tried although the live entry no longer held it
\* (its own eviction found nothing to remove).
C12_Witness ==
    \E r \in Requests :
      /\ Len(candidates[r]) = 2
      /\ Len(attempts[r]) = 2
      /\ attempts[r][2].forwarded
      /\ attempts[r][2].evict
      /\ attempts[r][2].cache_same
      /\ attempts[r][2].route = candidates[r][2]

(***************************************************************************)
(* More claims about the cache, checked under SpecCache.                   *)
(***************************************************************************)
\* C13: a get returns a list only when the time it read is strictly before
\* expires_at and hard_expires_at of the entry it returns the list of (the
\* entry as get_mut finds it, before the refresh).
C13_ReturnedOnlyIfFresh ==
    [][\A t \in DOMAIN thr :
         (thr[t].pc = "get_refresh" /\ thr'[t].pc = "done" /\ thr'[t].ret.hit)
         => /\ TheKey \in DOMAIN cache
            /\ thr[t].now < cache[TheKey].expires_at
            /\ thr[t].now < cache[TheKey].hard_expires_at]_vars

\* C14: whatever get, set, remove_config and clear calls interleave, every
\* entry of the cache has expires_at <= hard_expires_at.
C14_SoftWithinHard ==
    \A k \in DOMAIN cache : cache[k].expires_at <= cache[k].hard_expires_at

\* A hit whose refresh was cut down to the hard expiry.
C14_Witness ==
    \E t \in DOMAIN thr :
      /\ thr[t].op = "get" /\ thr[t].pc = "done" /\ thr[t].ret.hit
      /\ TheKey \in DOMAIN cache
      /\ thr[t].now + Ttl > cache[TheKey].hard_expires_at
      /\ cache[TheKey].expires_at = cache[TheKey].hard_expires_at

\* C15: whatever get, set and remove_config calls interleave, every entry of
\* the cache has created_at <= expires_at.
C15_CreatedBeforeExpiry ==
    \A k \in DOMAIN cache : cache[k].created_at <= cache[k].expires_at

\* C16: a get that returns a list leaves the entry's expires_at at or above
\* the value it had before the refresh, and at or below hard_expires_at,
\* also when another get on the key overlaps it (the calls on the key are
\* gets only).
C16_RefreshMonotonic ==
    [][\A t \in DOMAIN thr :
         (/\ thr[t].pc = "get_refresh" /\ thr'[t].pc = "done" /\ thr'[t].ret.hit
          /\ \A u \in DOMAIN thr : thr[u].op = "get")
         => /\ TheKey \in DOMAIN cache /\ TheKey \in DOMAIN cache'
            /\ cache'[TheKey].expires_at >= cache[TheKey].expires_at
            /\ cache'[TheKey].expires_at <= cache'[TheKey].hard_expires_at]_vars

(***************************************************************************)
(* Claims about the cache used by one caller, checked under SpecSeq.       *)
(***************************************************************************)
Hit(configs) == [hit |-> TRUE, configs |-> configs]

\* Calls s+1..g of the log are gets, each made before the sliding expiry the
\* call before it left has elapsed: less than ttl after that call read its
\* clock, and less than max_lifetime after the set read its clock.
within_ttl_since(s, g) ==
    \A j \in (s + 1)..g :
      /\ hist[j].op = "get"
      /\ hist[j].now < hist[j - 1].now + Ttl
      /\ hist[j].now < hist[s].now + MaxLifetime

\* C17: a get made after a set, with no remove_config or clear between them
\* and before the sliding TTL has elapsed, returns the list given to that
\* most recent set: the same configs in the same order.
C17_GetReturnsLastSet ==
    \A s, g \in 1..Len(hist) :
      (s < g /\ hist[s].op = "set" /\ within_ttl_since(s, g))
      => hist[g].ret = Hit(hist[s].arg)

\* A set over the list of an earlier set, and a get after the clock moved.
C17_Witness ==
    /\ first # << >>
    /\ Len(hist) = 2
    /\ hist[1].op = "set" /\ Len(hist[1].arg) = 2
    /\ hist[1].arg # first[TheKey].configs
    /\ hist[2].op = "get" /\ hist[2].now > hist[1].now
    /\ hist[2].ret = Hit(hist[1].arg)

same_upstream(c, failed) ==
    c.token = failed.token /\ c.api_endpoint = failed.api_endpoint

\* C18: remove_config leaves a store without the key as it is; in an entry
\* it drops exactly the configs with the token and the api_endpoint of the
\* failed one, whatever their IDs, keeps the others in their order and the
\* entry's times, and removes the entry when and only when none is left.
C18_RemoveConfigExact ==
    \A i \in 1..Len(hist) :
      hist[i].op = "remove_failed_route"
      => LET b == hist[i].before
             a == hist[i].after
             failed == hist[i].arg[1]
         IN  IF TheKey \notin DOMAIN b
             THEN a = b
             ELSE LET kept == SelectSeq(b[TheKey].configs,
                                        LAMBDA c : ~ same_upstream(c, failed))
                  IN  /\ (TheKey \in DOMAIN a) <=> (kept # << >>)
                      /\ kept # << >>
                           => a[TheKey] = [b[TheKey] EXCEPT !.configs = kept]

\* The entry held the failed config, another config of the same upstream
\* under other IDs, and a config of another upstream.
C18_Witness ==
    \E i \in 1..Len(hist) :
      /\ hist[i].op = "remove_failed_route"
      /\ hist[i].arg = << RA >>
      /\ TheKey \in DOMAIN hist[i].before
      /\ Len(hist[i].before[TheKey].configs) = 3
      /\ TheKey \in DOMAIN hist[i].after
      /\ hist[i].after[TheKey].configs = << RB >>

\* Two configs are kept, in the order they had.
C18_WitnessOrder ==
    \E i \in 1..Len(hist) :
      /\ hist[i].op = "remove_failed_route"
      /\ hist[i].arg = << RB >>
      /\ TheKey \in DOMAIN hist[i].before
      /\ hist[i].before[TheKey].configs = << RA2, RB, RA >>
      /\ hist[i].after[TheKey].configs = << RA2, RA >>

contains_config(configs, c) == \E i \in 1..Len(configs) : configs[i] = c

\* C19: once remove_failed_route has returned for a config, a get on the key
\* returns no list holding that config as long as no set has stored a new
\* list for the key.
C19_EvictedStaysOut ==
    \A e, g \in 1..Len(hist) :
      (/\ e < g
       /\ hist[e].op = "remove_failed_route"
       /\ hist[g].op = "get"
       /\ \A j \in (e + 1)..(g - 1) : hist[j].op # "set")
      => ~ contains_config(hist[g].ret.configs, hist[e].arg[1])

\* The entry held the config and others; the get after the eviction hits.
C19_Witness ==
    /\ Len(hist) = 2
    /\ hist[1].op = "remove_failed_route"
    /\ TheKey \in DOMAIN hist[1].before
    /\ contains_config(hist[1].before[TheKey].configs, hist[1].arg[1])
    /\ hist[2].op = "get"
    /\ hist[2].ret.hit
    /\ hist[2].ret.configs # << >>
    /\ ~ contains_config(hist[2].ret.configs, hist[1].arg[1])

(***************************************************************************)
(* Claims about resolve_route, checked under Spec.                         *)
(***************************************************************************)
request_key(q) == make_key(q.token, q.model)

\* C20: when the lookup of a request hits a list that is not empty, resolve
\* returns that list and no request goes to the business API; the business
\* API is called only after a lookup that missed or hit an empty list; and
\* a resolve writes the cache only with a list that is not empty, the one
\* the business API answered with success and that resolve returns.
C20_ResolveUsesCache ==
    [][\A r \in Requests :
         /\ (pc[r] = "idle" /\ pc'[r] \in {"forward", "fetch"})
              => LET g == cache_get(cache, request_key(req'[r]), now)
                 IN  IF g.hit /\ g.configs # << >>
                     THEN /\ pc'[r] = "forward"
                          /\ candidates'[r] = g.configs
                          /\ posts'[r] = 0
                     ELSE pc'[r] = "fetch"
         /\ posts'[r] > posts[r] => pc[r] = "fetch"
         /\ (posts'[r] > posts[r] /\ cache' # cache)
              => /\ pc'[r] = "forward"
                 /\ candidates'[r] # << >>
                 /\ request_key(req[r]) \in DOMAIN cache'
                 /\ cache'[request_key(req[r])].configs = candidates'[r]]_vars

\* A request resolved from the cache: two candidates and no POST.
C20_Witness ==
    \E r \in Requests :
      /\ pc[r] = "forward"
      /\ posts[r] = 0
      /\ Len(candidates[r]) = 2
      /\ attempts[r] = << >>

Retryable == {"status5xx", "transport"}

\* C21: the fetch of a resolve ends; it sends at most retry_attempts + 1
\* POSTs; a POST after the first is sent only when the answer to the one
\* before was a transport error or a 5xx status and fewer than
\* retry_attempts retries had been made; after a 4xx status or a body with
\* success=false the fetch is over, so that answer to the first POST leaves
\* exactly one POST.
C21_FetchTerminates ==
    /\ [](\A r \in Requests :
            /\ posts[r] <= RetryAttempts + 1
            /\ api_response[r] \in {"status4xx", "failure"} => pc[r] # "fetch")
    /\ [][\A r \in Requests :
            (posts'[r] > posts[r] /\ posts[r] >= 1)
            => /\ api_response[r] \in Retryable
               /\ posts[r] - 1 < RetryAttempts]_vars
    /\ \A r \in Requests : (pc[r] = "fetch") ~> (pc[r] # "fetch")

\* The retries are used up: retry_attempts + 1 POSTs, the last one failed too.
C21_Witness ==
    \E r \in Requests :
      /\ posts[r] = RetryAttempts + 1
      /\ retry_count[r] = RetryAttempts
      /\ api_response[r] \in Retryable
      /\ pc[r] = "done"
      /\ response[r].status = 503

\* One POST, answered with a 4xx status: the resolve is over.
C21_WitnessNoRetry ==
    \E r \in Requests :
      posts[r] = 1 /\ api_response[r] = "status4xx" /\ pc[r] = "done"

(***************************************************************************)
(* More claims about the failover loop, checked under Spec.                *)
(***************************************************************************)
\* C22: a request all of whose attempts failed with an upstream 5xx or a
\* transport error has tried every candidate, handed one ErrorEvent per
\* candidate to telemetry, evicted every candidate, and is answered 503.
C22_AllFailedIs503 ==
    \A r \in Requests :
      (/\ pc[r] = "done"
       /\ attempts[r] # << >>
       /\ \A i \in 1..Len(attempts[r]) : Is5xxOrTransport(attempts[r][i]))
      => /\ Len(attempts[r]) = Len(candidates[r])
         /\ Len(errorEvents[r]) = Len(candidates[r])
         /\ \A i \in 1..Len(attempts[r]) : attempts[r][i].evict
         /\ response[r].status = 503

\* C23: in the unary path an upstream 2xx with an empty body is not answered
\* to the client: the response is never the one of that attempt, the loop
\* goes on to the next candidate, and after the last candidate the answer
\* is 503.
C23_EmptyBodyFails ==
    \A r \in Requests : \A i \in 1..Len(attempts[r]) :
      (~ req[r].stream /\ attempts[r][i].kind = "ok" /\ attempts[r][i].body = "empty")
      => /\ response[r].from # i
         /\ i < Len(candidates[r])
              => \/ Len(attempts[r]) > i
                 \/ pc[r] = "forward" /\ idx[r] = i + 1
         /\ i = Len(candidates[r])
              => pc[r] = "done" /\ response[r].status = 503

\* The first candidate answered 200 with an empty body, the second was tried
\* and its answer went to the client.
C23_Witness ==
    \E r \in Requests :
      /\ ~ req[r].stream
      /\ Len(attempts[r]) = 2
      /\ attempts[r][1].kind = "ok" /\ attempts[r][1].body = "empty"
      /\ attempts[r][2].outcome = "ok"
      /\ response[r].status = 200 /\ response[r].from = 2

\* C24: when the loop stops on an upstream 4xx, the response to the client
\* carries the body the upstream sent, unchanged, whatever the status.
C24_ClientErrorBodyVerbatim ==
    \A r \in Requests : \A i \in 1..Len(attempts[r]) :
      (/\ Is4xx(attempts[r][i])
       /\ attempts[r][i].outcome = "client_error"
       /\ pc[r] = "done" /\ response[r].from = i)
      => /\ response[r].kind = "upstream_body"
         /\ response[r].text = attempts[r][i].text

(***************************************************************************)
(* More claims about streams, checked under SpecStream.                    *)
(***************************************************************************)
\* C25: the collector of one wrapped stream hands at most one UsageEvent to
\* telemetry (the report at the end of the stream adds none when one was
\* published before), and none while a token count is unknown.
C25_OneUsageEventPerStream ==
    /\ Len(streamEvents) <= 1
    /\ streamEvents # << >>
         => collector.input_tokens # None /\ collector.output_tokens # None

\* C26: when the response stream is dropped before the upstream has ended,
\* the final report of the collector has run on the token counts collected
\* so far (a UsageEvent is out when both counts are known), and nothing more
\* is pulled from the upstream afterwards.
C26_DropStillReports ==
    /\ []((/\ spc = "dropped"
           /\ collector.input_tokens # None
           /\ collector.output_tokens # None)
          => streamEvents # << >>)
    /\ [][spc = "dropped" => (upItems' = upItems /\ pos' = pos)]_vars

(***************************************************************************)
(* Claims about protocols in the pipeline, checked under Spec.             *)
(***************************************************************************)
\* What the loop of the request's path does with candidate `route` when the
\* upstream does `u`.
iteration(q, route, u) ==
    IF q.stream
    THEN stream_iteration(q.client_protocol, q.shape_ok, route, u)
    ELSE non_stream_iteration(q.client_protocol, q.shape_ok, route, u)

\* C27: a candidate whose protocol is Custom is handled as the same
\* candidate with protocol OpenAI would be: for the request that tried it
\* and every behaviour of the upstream, the loop forwards, reports, evicts
\* and answers the same.
C27_CustomLikeOpenAI ==
    \A r \in Requests : \A i \in 1..Len(attempts[r]) :
      attempts[r][i].route.protocol = "custom"
      => \A u \in UpstreamOutcomes :
           iteration(req[r], attempts[r][i].route, u)
             = iteration(req[r], [attempts[r][i].route EXCEPT !.protocol = "openai"], u)

(***************************************************************************)
(* Claims about the translated stream, checked under SpecStream.           *)
(***************************************************************************)
\* C28: on a stream of an Anthropic upstream translated for an OpenAI
\* client (the upstream ends with stop_reason end_turn), every chunk
\* delivered to the client that carries a finish_reason carries "stop".
C28_FinishReasonStop ==
    (sproto.src = "anthropic" /\ sproto.cli = "openai")
    => \A k \in 1..Len(clientOut) : \A i \in 1..Len(clientOut[k].bytes) :
         LET a == clientOut[k].bytes[i]
         IN  (a.k = "json" /\ a.stop # "") => a.stop = "stop"


(***************************************************************************)
(* Claims about telemetry.                                                 *)
(***************************************************************************)
\* What the client and later requests can observe of the request path.
observable == << pc, req, candidates, idx, retry_count, posts, api_response,
                 attempts, response, cache >>

\* C29: the response to the client and the cache are the same whether each
\* telemetry POST succeeds, fails or never completes: the request path is
\* never held up by a POST in flight, and the step in which a POST succeeds
\* or fails changes nothing the request path reads.
C29_TelemetryUnobserved ==
    /\ [](\A r \in Requests :
            /\ pc[r] = "forward" => ENABLED forward_candidate(r)
            /\ pc[r] = "done" => ENABLED next_request(r))
    /\ [][\A r \in Requests :
            telemetry'[r].pending < telemetry[r].pending /\ pc'[r] = pc[r]
                => observable' = observable]_vars

\* A response is returned while one POST failed and another is in flight.
C29_Witness ==
    \E r \in Requests :
        /\ pc[r] = "done"
        /\ response[r].status = 200
        /\ telemetry[r].failed > 0
        /\ telemetry[r].pending > 0


(***************************************************************************)
(* Claims about route resolution.                                          *)
(***************************************************************************)
\* Route resolution of request r ended in an error or in an empty list.
no_route(r) ==
    \/ api_response[r] \in {"failure", "badjson", "status4xx", "status5xx", "transport"}
    \/ api_response[r] = "success" /\ candidates[r] = << >>

\* C30: when route resolution ends in an error or in an empty candidate
\* list, the client receives 503, no upstream provider is contacted, and the
\* step that ends the resolution writes nothing to the cache.
C30_NoRouteIs503 ==
    /\ [](\A r \in Requests :
            pc[r] = "done" /\ no_route(r)
                => /\ response[r].status = 503
                   /\ attempts[r] = << >>)
    /\ [][\A r \in Requests :
            posts'[r] > posts[r] /\ pc'[r] = "done" => cache' = cache]_vars

\* The business API answered with an empty list of routes.
C30_Witness ==
    \E r \in Requests :
        /\ pc[r] = "done"
        /\ api_response[r] = "success"
        /\ candidates[r] = << >>
        /\ response[r].status = 503

\* Route resolution failed after the retries were used up.
C30_WitnessError ==
    \E r \in Requests :
        /\ pc[r] = "done"
        /\ api_response[r] = "transport"
        /\ posts[r] = RetryAttempts + 1
        /\ response[r].status = 503

(***************************************************************************)
(* Claims about the events of a translated stream, checked under           *)
(* SpecStream.                                                             *)
(***************************************************************************)
OpenAIToAnthropic == sproto.src = "openai" /\ sproto.cli = "anthropic"
AnthropicToOpenAI == sproto.src = "anthropic" /\ sproto.cli = "openai"

\* The JSON objects among the bytes, in order.
json_of(bytes) == SelectSeq(bytes, LAMBDA a : a.k = "json")

\* The JSON objects of a type among the bytes, in order.
events_of(bytes, type) == SelectSeq(bytes, LAMBDA a : a.k = "json" /\ a.t = type)

\* C31: on a stream of an OpenAI upstream translated for an Anthropic
\* client, message_start is delivered at most once, before any other event,
\* and content_block_start at most once, however many chunks the upstream
\* sends.
C31_MessageStartOnce ==
    OpenAIToAnthropic =>
        LET out == json_of(flatten(clientOut))
        IN  /\ Len(events_of(out, "message_start")) <= 1
            /\ Len(events_of(out, "content_block_start")) <= 1
            /\ out # << >> => out[1].t = "message_start"

\* C32: on a stream of an OpenAI upstream translated for an Anthropic
\* client, the events delivered for "[DONE]" are message_delta and then
\* message_stop, preceded by content_block_stop exactly when a
\* content_block_start was delivered earlier on the stream, in the same
\* chunk or in an earlier one.
C32_DoneClosesOpenBlock ==
    OpenAIToAnthropic =>
        LET out == json_of(flatten(clientOut))
        IN  \A i \in 1..Len(out) :
              out[i].t = "message_stop" =>
                /\ i >= 2 /\ out[i - 1].t = "message_delta"
                /\ (\E j \in 1..(i - 1) : out[j].t = "content_block_start")
                     <=> (i >= 3 /\ out[i - 2].t = "content_block_stop")

\* usage.completion_tokens of the latest JSON object with a usage among the
\* bytes, None when there is none.
latest_completion_tokens(bytes) ==
    LET u == SelectSeq(bytes, LAMBDA a : a.k = "json" /\ has_usage(a))
    IN  IF u = << >> THEN None ELSE u[Len(u)].tout

\* C33: on a stream of an OpenAI upstream translated for an Anthropic
\* client, the message_delta delivered for "[DONE]" carries as
\* usage.output_tokens the latest usage.completion_tokens the upstream sent
\* before, whether it arrived in the chunk of "[DONE]" or in an earlier one.
C33_DeltaCarriesUsage ==
    OpenAIToAnthropic =>
        LET out == json_of(flatten(clientOut))
            n == latest_completion_tokens(flatten(upItems))
        IN  \A i \in 1..Len(out) :
              (/\ out[i].t = "message_delta"
               /\ n # None
               /\ \A k \in 1..Len(upItems) : ~ EndsMidLine(upItems[k]))
              => out[i].tout = n

\* The payloads of the data lines among the bytes: JSON objects and "[DONE]".
payloads_of(bytes) == SelectSeq(bytes, LAMBDA a : a.k \in {"json", "done"})

\* Whether a chunk ends at the blank line that ends an event.
EndsAtEvent(item) ==
    /\ item.ok
    /\ Len(item.bytes) >= 2
    /\ item.bytes[Len(item.bytes)].k = "nl"
    /\ item.bytes[Len(item.bytes) - 1].k = "nl"

\* C34: on a stream of an Anthropic upstream translated for an OpenAI
\* client whose chunks each end at the end of an event, when a
\* message_delta with usage.output_tokens = N was received, the "[DONE]"
\* delivered for message_stop is immediately preceded by one chunk with
\* empty choices and usage {0, N, N}, and every chunk delivered carries the
\* id the upstream's message_start gave.
C34_UsageChunkBeforeDone ==
    (AnthropicToOpenAI /\ \A k \in 1..Len(upItems) : EndsAtEvent(upItems[k])) =>
        LET out == payloads_of(flatten(clientOut))
            up == json_of(flatten(upItems))
            deltas == SelectSeq(up, LAMBDA a : a.t = "message_delta" /\ a.tout # None)
            starts == events_of(up, "message_start")
        IN  /\ \A i \in 1..Len(out) :
                  (out[i].k = "done" /\ deltas # << >>) =>
                      /\ i >= 2
                      /\ out[i - 1].k = "json"
                      /\ ~ out[i - 1].choice
                      /\ out[i - 1].tin = Some(0)
                      /\ out[i - 1].tout = deltas[Len(deltas)].tout
            /\ \A i \in 1..Len(out) :
                  (out[i].k = "json" /\ starts # << >>) => out[i].id = starts[1].id

(***************************************************************************)
(* Claims about the collector's buffer, checked under SpecStream.          *)
(***************************************************************************)
\* The upstream sent more than the cap without an event terminator in its
\* first k chunks, and the events of the stream, whole, in the chunks after.
overflowed_at(k) ==
    /\ wire = OverflowWire(sproto.src)
    /\ k < Len(upItems)
    /\ \A i \in 1..Len(upItems) : upItems[i].ok
    /\ flatten(SubSeq(upItems, 1, k)) = << FILL, FILL >>

\* C36: after every process_chunk the collector's buffer holds at most 1 MiB
\* and no event terminator; and when the cap has cleared the buffer, the
\* events of the chunks that follow are still parsed: at the end of the
\* stream the collector holds the token counts they carry and has reported
\* them.
C36_BufferBounded ==
    /\ bytes_len(collector.buffer) <= BufferCap
    /\ find_event_end(collector.buffer) = 0
    /\ \A k \in 1..Len(upItems) :
         (overflowed_at(k) /\ spc = "ended" /\ pos = Len(wire)) =>
            /\ collector.input_tokens = Some(1)
            /\ collector.output_tokens = Some(2)
            /\ streamEvents # << >>
            /\ \A i \in 1..Len(streamEvents) :
                 /\ streamEvents[i].input_tokens = 1
                 /\ streamEvents[i].output_tokens = 2

\* The cap cleared the buffer after the second chunk and the events of the
\* third were collected.
C36_Witness ==
    /\ overflowed_at(2)
    /\ Len(upItems) = 3
    /\ upItems[1].bytes = << FILL >>
    /\ spc = "ended"
    /\ collector.buffer = << >>
    /\ collector.output_tokens = Some(2)
    /\ streamEvents # << >>

(***************************************************************************)
(* Specification SpecLock: the guards of the DashMap.  Tasks on the worker *)
(* threads call get, set, remove_config and clear on keys of two shards.   *)
(* storage.get returns a Ref that holds the read lock of the key's shard,  *)
(* storage.get_mut a RefMut that holds its write lock, until the guard is  *)
(* dropped; insert and remove take the write lock for the call; clear      *)
(* takes the write lock of each shard in turn.  A step that needs a lock   *)
(* is enabled when the lock can be taken.                                  *)
(***************************************************************************)
\* Two keys of one shard and one key of another.
LockKeys ==
    { make_key(<< "u" >>, << "m" >>), make_key(<< "u" >>, << "m2" >>),
      make_key(<< "u2" >>, << "m" >>) }

Shards == {1, 2}

\* DashMap::determine_map: the shard a key hashes to.
determine_shard(key) == IF key[1] = "u" THEN 1 ELSE 2

IdleTask ==
    [pc |-> "idle", op |-> "none", key |-> << >>, arg |-> << >>, now |-> 0,
     need_remove |-> FALSE, guard |-> "none", shard |-> 0]

\* The calls a task can make.
LockCalls ==
    { [op |-> "get", key |-> k, arg |-> << >>] : k \in LockKeys }
    \cup { [op |-> "set", key |-> k, arg |-> << RA >>] : k \in LockKeys }
    \cup { [op |-> "remove_config", key |-> k, arg |-> << c >>] :
              k \in LockKeys, c \in {RA, RB} }
    \cup { [op |-> "clear", key |-> << >>, arg |-> << >>] }

\* The guard of shard sh a task holds, "none" when it holds none.
guard_on(u, sh) ==
    IF thr[u].guard # "none" /\ determine_shard(thr[u].key) = sh
    THEN thr[u].guard ELSE "none"

\* RwLock::read and RwLock::write of a shard can be taken.
can_read(sh) == \A u \in Threads : guard_on(u, sh) # "write"
can_write(sh) == \A u \in Threads : guard_on(u, sh) = "none"

\* A block that ends with its guard still alive.
drop_guard_kept(guard) == guard

\* The end of the block of `if let Some(entry) = ...`: the guard is dropped.
drop_guard(guard) == "none"

InitLock ==
    /\ cache \in { << >>, [k \in LockKeys |-> new_entry(<< RA >>, 0)] }
    /\ first = cache
    /\ now = 0
    /\ thr = [t \in Threads |-> IdleTask]
    /\ hist = << >>

lock_frame == UNCHANGED << now, hist, first, pipeVars, streamVars >>

\* A task calls an operation: make_key and Instant::now().
lock_call(t) ==
    /\ thr[t].pc = "idle"
    /\ \E c \in LockCalls :
         thr' = [thr EXCEPT ![t] = [IdleTask EXCEPT !.pc = c.op, !.op = c.op,
                                                    !.key = c.key, !.arg = c.arg,
                                                    !.now = now, !.shard = 1]]
    /\ UNCHANGED cache
    /\ lock_frame

\* get, phase 1: storage.get(&key) and the expiry checks under the Ref.
get_storage_get(t) ==
    /\ thr[t].pc = "get"
    /\ can_read(determine_shard(thr[t].key))
    /\ thr' = [thr EXCEPT
                 ![t].guard = IF thr[t].key \in DOMAIN cache THEN "read" ELSE "none",
                 ![t].need_remove = get_need_remove(cache, thr[t].key, thr[t].now),
                 ![t].pc = "get_checked"]
    /\ UNCHANGED cache
    /\ lock_frame

\* get: the end of the block of phase 1.
get_drop_ref(t) ==
    /\ thr[t].pc = "get_checked"
    /\ thr' = [thr EXCEPT ![t].guard = drop_guard(@),
                          ![t].pc = IF thr[t].need_remove THEN "get_remove"
                                                          ELSE "get_refresh"]
    /\ UNCHANGED cache
    /\ lock_frame

\* get, phase 2: storage.remove(&key) and return None.
get_storage_remove(t) ==
    /\ thr[t].pc = "get_remove"
    /\ can_write(determine_shard(thr[t].key))
    /\ cache' = storage_remove(cache, thr[t].key)
    /\ thr' = [thr EXCEPT ![t].pc = "done"]
    /\ lock_frame

\* get, phase 3: storage.get_mut(&key) and the refresh under the RefMut.
get_storage_get_mut(t) ==
    /\ thr[t].pc = "get_refresh"
    /\ can_write(determine_shard(thr[t].key))
    /\ LET r == get_refresh(cache, thr[t].key, thr[t].now)
       IN /\ cache' = r.store
          /\ thr' = [thr EXCEPT ![t].guard = IF r.hit THEN "write" ELSE "none",
                                ![t].pc = "get_refreshed"]
    /\ lock_frame

\* get: drop(entry) and return.
get_drop_ref_mut(t) ==
    /\ thr[t].pc = "get_refreshed"
    /\ thr' = [thr EXCEPT ![t].guard = "none", ![t].pc = "done"]
    /\ UNCHANGED cache
    /\ lock_frame

\* set: storage.insert(key, entry).
set_storage_insert(t) ==
    /\ thr[t].pc = "set"
    /\ can_write(determine_shard(thr[t].key))
    /\ cache' = storage_insert(cache, thr[t].key, new_entry(thr[t].arg, thr[t].now))
    /\ thr' = [thr EXCEPT ![t].pc = "done"]
    /\ lock_frame

\* remove_config: storage.get_mut(&key), retain and the test under the RefMut.
remove_config_get_mut(t) ==
    /\ thr[t].pc = "remove_config"
    /\ can_write(determine_shard(thr[t].key))
    /\ LET r == remove_retain(cache, thr[t].key, thr[t].arg[1])
       IN /\ cache' = r.store
          /\ thr' = [thr EXCEPT
                       ![t].guard = IF thr[t].key \in DOMAIN cache
                                    THEN "write" ELSE "none",
                       ![t].need_remove = r.should_remove_entry,
                       ![t].pc = "remove_config_checked"]
    /\ lock_frame

\* remove_config: the end of the block of get_mut.
remove_config_drop_ref_mut(t) ==
    /\ thr[t].pc = "remove_config_checked"
    /\ thr' = [thr EXCEPT ![t].guard = drop_guard(@),
                          ![t].pc = IF thr[t].need_remove THEN "remove_entry"
                                                          ELSE "done"]
    /\ UNCHANGED cache
    /\ lock_frame

\* remove_config: storage.remove(&key).
remove_config_storage_remove(t) ==
    /\ thr[t].pc = "remove_entry"
    /\ can_write(determine_shard(thr[t].key))
    /\ cache' = storage_remove(cache, thr[t].key)
    /\ thr' = [thr EXCEPT ![t].pc = "done"]
    /\ lock_frame

\* clear: storage.clear() takes the write lock of the next shard and empties it.
clear_shard(t) ==
    /\ thr[t].pc = "clear"
    /\ can_write(thr[t].shard)
    /\ cache' = [k \in { k \in DOMAIN cache : determine_shard(k) # thr[t].shard }
                   |-> cache[k]]
    /\ thr' = [thr EXCEPT ![t].shard = @ + 1,
                          ![t].pc = IF thr[t].shard + 1 \in Shards THEN "clear"
                                                                   ELSE "done"]
    /\ lock_frame

\* A step of a call in progress.
lock_step(t) ==
    \/ get_storage_get(t)
    \/ get_drop_ref(t)
    \/ get_storage_remove(t)
    \/ get_storage_get_mut(t)
    \/ get_drop_ref_mut(t)
    \/ set_storage_insert(t)
    \/ remove_config_get_mut(t)
    \/ remove_config_drop_ref_mut(t)
    \/ remove_config_storage_remove(t)
    \/ clear_shard(t)

InitL == InitLock /\ InitPipeline /\ InitStreamIdle

NextLock ==
    \/ \E t \in Threads : lock_call(t)
    \/ \E t \in Threads : lock_step(t)
    \/ Tick

SpecLock == InitL /\ [][NextLock]_vars

(***************************************************************************)
(* Claims about the guards, checked under SpecLock.                        *)
(***************************************************************************)
\* C35: a task that is about to call the map-level remove holds no guard
\* (get and remove_config have dropped theirs), a task holds a guard only
\* inside the block that took it, and whenever a call is in progress some
\* call in progress can take its next step: no interleaving of get, set,
\* remove_config and clear on the same or different keys deadlocks.
C35_NoRemoveUnderGuard ==
    /\ \A t \in Threads :
         /\ thr[t].pc \in {"get_remove", "remove_entry"} => thr[t].guard = "none"
         /\ thr[t].guard # "none"
              => thr[t].pc \in {"get_checked", "get_refreshed", "remove_config_checked"}
    /\ (\E t \in Threads : thr[t].pc \notin {"idle", "done"})
         => ENABLED (\E t \in Threads : lock_step(t))

\* A get that found its entry expired is about to remove it while the other
\* task holds the guard of the same key.
C35_Witness ==
    \E t, u \in Threads :
        /\ thr[t].op = "get" /\ thr[t].pc = "get_remove"
        /\ thr[u].key = thr[t].key
        /\ thr[u].guard = "write"

\* A remove_config that emptied its entry has removed it and returned.
C35_WitnessRemoveConfig ==
    \E t \in Threads :
        /\ thr[t].op = "remove_config" /\ thr[t].pc = "done"
        /\ thr[t].need_remove
        /\ thr[t].key \notin DOMAIN cache

(***************************************************************************)
(* Specification SpecKeys: one caller using the cache for several          *)
(* (user_token, requested_model) pairs, a call returning before the next   *)
(* is made.  In a text the character ':' is always an atom of its own, so  *)
(* that two texts are equal exactly when their sequences of atoms are.     *)
(***************************************************************************)
\* Tokens and model names, with and without a ':'.
PairTokens == { << "u" >>, << "u", ":", "m" >> }
PairModels == { << "m" >>, << "m", ":", "m" >> }

Pairs == { [token |-> t, model |-> m] : t \in PairTokens, m \in PairModels }

InitKeys ==
    /\ cache = << >>
    /\ first = cache
    /\ now = 0
    /\ thr = << >>
    /\ hist = << >>

logged_for(pair, op, arg, ret, store) ==
    /\ cache' = store
    /\ hist' = Append(hist, [pair |-> pair, op |-> op, arg |-> arg, ret |-> ret,
                             before |-> cache, after |-> store])
    /\ UNCHANGED << now, thr, first, pipeVars, streamVars >>

pair_get ==
    /\ Len(hist) < MaxOps
    /\ \E p \in Pairs :
         LET r == cache_get(cache, make_key(p.token, p.model), now)
         IN  logged_for(p, "get", << >>, get_result(r), r.store)

pair_set ==
    /\ Len(hist) < MaxOps
    /\ \E p \in Pairs, l \in { << RA >>, << RA, RB >> } :
         logged_for(p, "set", l, Miss,
                    cache_set(cache, make_key(p.token, p.model), now, l))

pair_remove_config ==
    /\ Len(hist) < MaxOps
    /\ \E p \in Pairs, c \in {RA, RB} :
         logged_for(p, "remove_config", << c >>, Miss,
                    cache_remove_config(cache, make_key(p.token, p.model), c))

InitK == InitKeys /\ InitPipeline /\ InitStreamIdle

NextKeys ==
    \/ pair_get
    \/ pair_set
    \/ pair_remove_config

SpecKeys == InitK /\ [][NextKeys]_vars

(***************************************************************************)
(* Claims about cache keys, checked under SpecKeys.                        *)
(***************************************************************************)
\* An earlier call was a set for the pair of call i.
set_before(i) ==
    \E j \in 1..(i - 1) : hist[j].op = "set" /\ hist[j].pair = hist[i].pair

\* C37: distinct (user_token, requested_model) pairs never share a cache
\* entry, also when a token or a model contains ':': a get returns a list
\* only if a set for its own pair came before, and a remove_config changes
\* the cache only if a set for its own pair came before.
C37_PairsIsolated ==
    \A i \in 1..Len(hist) :
        /\ (hist[i].op = "get" /\ hist[i].ret.hit) => set_before(i)
        /\ (hist[i].op = "remove_config" /\ hist[i].after # hist[i].before)
             => set_before(i)

(***************************************************************************)
(* More claims about concurrent calls, checked under SpecCache.            *)
(***************************************************************************)
\* Task t deletes the entry of the key in this step, from position at.
deletes_entry(t, at) ==
    /\ thr[t].pc = at
    /\ thr'[t].pc = "done"
    /\ TheKey \in DOMAIN cache
    /\ TheKey \notin DOMAIN cache'

\* C38: the entry a get deletes is expired at the clock the get read, and
\* the entry a remove_config deletes is empty: a get or a remove_config that
\* decided to delete before a set replaced the entry does not delete the
\* entry that set inserted.
C38_SetNotDeletedByStaleDecision ==
    [][\A t \in DOMAIN thr :
         /\ deletes_entry(t, "get_remove")
              => get_need_remove(cache, TheKey, thr[t].now)
         /\ deletes_entry(t, "remove_entry")
              => cache[TheKey].configs = << >>]_vars

(***************************************************************************)
(* Specification SpecBody: the pipeline of one streaming request together  *)
(* with the stream it returned.  When handle_stream has returned 200 the   *)
(* response body pulls the translated stream of the candidate that         *)
(* answered; the upstream sends the first event of its stream and then     *)
(* fails or ends.                                                          *)
(***************************************************************************)
\* An upstream stream that stops after its first event.
FirstEventWire(source_protocol) ==
    IF source_protocol = "anthropic"
    THEN SubSeq(AnthropicWire, 1, 7)
    ELSE SubSeq(OpenAIWire, 1, 4)

\* The response of handle_stream is sent: its body starts pulling the stream
\* of the candidate that answered.
body_open(r) ==
    /\ pc[r] = "done"
    /\ response[r].status = 200
    /\ response[r].kind = "stream"
    /\ spc = "idle"
    /\ LET route == attempts[r][Len(attempts[r])].route
       IN /\ sproto' = [src |-> route.protocol, cli |-> req[r].client_protocol]
          /\ wire' = FirstEventWire(route.protocol)
          /\ translator' = InitTranslator(IF route.protocol = "anthropic"
                                          THEN "chatcmpl-unknown" ELSE "")
    /\ pos' = 0
    /\ upItems' = << >>
    /\ wrapped' = << >>
    /\ clientOut' = << >>
    /\ collector' = collector_state(InitCollector)
    /\ streamEvents' = << >>
    /\ spc' = "open"
    /\ pc' = [pc EXCEPT ![r] = "body"]
    /\ UNCHANGED << req, candidates, idx, retry_count, posts, api_response,
                    attempts, errorEvents, usageEvents, telemetry, response >>
    /\ UNCHANGED << storeVars, thrVars >>

\* The body is over or dropped: the response is complete.
body_close(r) ==
    /\ pc[r] = "body"
    /\ spc \in {"ended", "dropped"}
    /\ pc' = [pc EXCEPT ![r] = "done"]
    /\ response' = [response EXCEPT ![r].kind = "stream_closed"]
    /\ sproto' = [src |-> "openai", cli |-> "openai"]
    /\ wire' = << >>
    /\ pos' = 0
    /\ upItems' = << >>
    /\ wrapped' = << >>
    /\ clientOut' = << >>
    /\ collector' = collector_state(InitCollector)
    /\ translator' = InitTranslator("")
    /\ streamEvents' = << >>
    /\ spc' = "idle"
    /\ UNCHANGED << req, candidates, idx, retry_count, posts, api_response,
                    attempts, errorEvents, usageEvents, telemetry >>
    /\ UNCHANGED << storeVars, thrVars >>

NextBody ==
    \/ \E r \in Requests : handle_request(r)
    \/ \E r \in Requests : fetch_from_business_api(r)
    \/ \E r \in Requests : forward_candidate(r)
    \/ \E r \in Requests : next_request(r)
    \/ \E r \in Requests : body_open(r)
    \/ stream_chunk
    \/ stream_error
    \/ stream_end
    \/ stream_drop
    \/ \E r \in Requests : body_close(r)

SpecBody == Init /\ [][NextBody]_vars

(***************************************************************************)
(* Claims about the returned stream, checked under SpecBody.               *)
(***************************************************************************)
\* The response of request r is the 200 of an established stream.
stream_returned(r) ==
    response[r].status = 200 /\ response[r].kind \in {"stream", "stream_closed"}

\* C39: in the streaming path the candidate that answered 2xx is the last
\* one tried and its stream is returned with 200; and from then on, whatever
\* the stream yields (an error item, an early end), no other candidate is
\* tried, no ErrorEvent is emitted, nothing is evicted from the cache and
\* the response stays the one returned, until the task takes its next
\* request.
C39_NoFailoverAfterStream ==
    /\ [](\A r \in Requests : \A i \in 1..Len(attempts[r]) :
            (req[r].stream /\ attempts[r][i].forwarded /\ attempts[r][i].kind = "ok")
              => /\ i = Len(attempts[r])
                 /\ stream_returned(r)
                 /\ response[r].from = i)
    /\ [][\A r \in Requests :
            (stream_returned(r) /\ pc'[r] # "idle")
              => /\ attempts'[r] = attempts[r]
                 /\ errorEvents'[r] = errorEvents[r]
                 /\ idx'[r] = idx[r]
                 /\ cache' = cache
                 /\ response'[r].status = 200
                 /\ response'[r].from = response[r].from]_vars

\* The returned stream has failed after its first chunk while a candidate
\* of the list is still untried.
C39_Witness ==
    \E r \in Requests :
        /\ pc[r] = "body"
        /\ spc = "errored"
        /\ Len(upItems) = 2
        /\ Len(attempts[r]) < Len(candidates[r])
        /\ errorEvents[r] = << >>

\* The upstream of the returned stream has ended after its first event.
C39_WitnessEarlyEnd ==
    \E r \in Requests :
        /\ pc[r] = "body"
        /\ spc = "ended"
        /\ pos = Len(wire)
        /\ \A i \in 1..Len(upItems) : upItems[i].ok
        /\ Len(attempts[r]) < Len(candidates[r])

(***************************************************************************)
(* Specification SpecHeaders: the headers of the upstream request.  A      *)
(* header map is a function from lower-case header names to values;        *)
(* hist is the log of the requests sent: the inbound headers, the route    *)
(* and the headers send_request put on the upstream request.               *)
(***************************************************************************)
\* Headers an inbound request can carry besides its Authorization: the
\* client's key once more as x-api-key (as Anthropic clients send it), a
\* cookie, and headers that are no credentials.
OptionalClientHeaders ==
    [n \in {"x-api-key", "cookie", "accept", "connection"} |->
        CASE n = "x-api-key"  -> << "u" >>
          [] n = "cookie"     -> << "session=", "u" >>
          [] n = "accept"     -> << "*/*" >>
          [] n = "connection" -> << "keep-alive" >>]

\* The header maps of inbound requests that pass extract_token.
ClientHeaderMaps ==
    { [n \in ns \cup {"authorization"} |->
          IF n = "authorization" THEN << "Bearer ", "u" >>
          ELSE OptionalClientHeaders[n]] :
      ns \in SUBSET (DOMAIN OptionalClientHeaders) }

blocked_headers ==
    {"authorization", "host", "content-length", "transfer-encoding", "connection"}

filter_client_headers(headers) ==
    [n \in (DOMAIN headers) \ blocked_headers |-> headers[n]]

\* HeaderMap::insert: the value replaces the one the name had.
header_insert(headers, name, value) ==
    [n \in (DOMAIN headers) \cup {name} |-> IF n = name THEN value ELSE headers[n]]

\* The credential header send_request builds from the route.
provider_credential(route_config) ==
    IF route_config.protocol = "anthropic"
    THEN [name |-> "x-api-key", value |-> << route_config.token >>]
    ELSE [name |-> "authorization", value |-> << "Bearer ", route_config.token >>]

\* The headers of the upstream request of send_request / send_request_stream.
send_request_headers(route_config, client_headers) ==
    LET cred == provider_credential(route_config)
    IN  header_insert(header_insert(client_headers, cred.name, cred.value),
                      "content-type", << "application/json" >>)

InitHeaders ==
    /\ cache = << >>
    /\ first = cache
    /\ now = 0
    /\ thr = << >>
    /\ hist = << >>

\* One inbound request forwarded to the upstream of a route.
send_request ==
    /\ Len(hist) < MaxOps
    /\ \E h \in ClientHeaderMaps, c \in Routes :
         hist' = Append(hist, [inbound |-> h, route |-> c,
                               upstream |-> send_request_headers(
                                                c, filter_client_headers(h))])
    /\ UNCHANGED << cache, now, thr, first, pipeVars, streamVars >>

InitH == InitHeaders /\ InitPipeline /\ InitStreamIdle

NextHeaders == send_request

SpecHeaders == InitH /\ [][NextHeaders]_vars

(***************************************************************************)
(* Claims about credentials, checked under SpecHeaders.                    *)
(***************************************************************************)
\* The names of headers that carry credentials.
CredentialHeaders == {"authorization", "proxy-authorization", "x-api-key", "cookie"}

\* C40: no credential of the client reaches the upstream: no header of the
\* upstream request carries the user_token, and the only credential header
\* on it is the one built from the route's provider token (x-api-key for
\* Anthropic, Authorization: Bearer for OpenAI and Custom).
C40_NoClientCredentialUpstream ==
    \A i \in 1..Len(hist) :
        LET up == hist[i].upstream
            cred == provider_credential(hist[i].route)
        IN  /\ \A n \in DOMAIN up : ~ Contains(up[n], << "u" >>)
            /\ \A n \in (DOMAIN up) \cap CredentialHeaders :
                 n = cred.name /\ up[n] = cred.value
            /\ cred.name \in DOMAIN up

====
